---------------------------- MODULE Spec2Model ----------------------------
(***************************************************************************)
(* Agent memory store (agent-memory-skill/scripts): the Memory record, the *)
(* flat-file JSONBackend, the GraphBackend over a triple-store port, and   *)
(* the MemoryStore facade.                                                 *)
(*                                                                         *)
(* Eight specifications share the variables:                               *)
(*   Spec        one MemoryStore driven by one caller, every operation one *)
(*               atomic step (backends.py and memory.py, call by call);    *)
(*   SpecFacade  as Spec, for build_context, remember and add_procedure    *)
(*               with caller metadata, on a graph that holds a record;     *)
(*   SpecPort    a graph store whose engine raises inside a query;         *)
(*   SpecGraph   a graph store over an engine that holds a record, with    *)
(*               the queries of the graph;                                 *)
(*   SpecExtract the entity extraction over every short content;           *)
(*   SpecInit    two processes that construct a JSONBackend on one         *)
(*               directory, the constructor step by step;                  *)
(*   SpecLive    processes calling load and save for ever, with fairness;  *)
(*   SpecFile    several callers of JSONBackend.load/save/add/delete on    *)
(*               one memories.json, one step per system call (open, flock, *)
(*               buffered write, unlock, close).                           *)
(*                                                                         *)
(* Representation.  A text is a sequence of one-character strings.  A      *)
(* timestamp (datetime.now().isoformat()) is the clock reading as a        *)
(* natural number: ISO-8601 strings of one format order as the readings.   *)
(* An id, sha256(text + timestamp)[:12], is the pair <<text, timestamp>>:  *)
(* equal inputs give equal ids, and the model has no other collisions.     *)
(* The file is a sequence of JSON tokens; a dict of a record is one token. *)
(***************************************************************************)
EXTENDS Integers, Sequences, FiniteSets, TLC

VARIABLES
    backend,          \* MemoryStore._backend: "json" or "graph"
    cog,              \* the graph engine's package can be imported (from cog.torque import Graph)
    opened,           \* the backend's constructor has run
    memories,         \* JSONBackend._memories
    file,             \* bytes of memory_dir/memories.json, as JSON tokens
    fstat,            \* "ok", "missing" (no such file) or "unreadable" (open raises OSError)
    memories_cache,   \* GraphBackend._memories_cache, in dict (insertion) order
    graph,            \* the graph engine's triples (GraphBackend._graph)
    now,              \* the last reading of datetime.now()
    last,             \* the last call: its name, arguments, return value or exception;
                      \* for open, reopen and load of the file backend arg is the file
                      \* found, for reopen of the graph backend the cache left behind
    deleted,          \* history: ids whose delete returned True and that were not added again
    calls,            \* history: the number of calls made on the store
    procs,            \* SpecFile: per caller, the position in load/save and its locals
    locks             \* SpecFile: flock state of memories.json, per caller "none", "SH" or "EX"

vars == <<backend, cog, opened, memories, file, fstat, memories_cache, graph, now,
          last, deleted, calls, procs, locks>>

-----------------------------------------------------------------------------
(* Bounds of the model. *)

\* Clock readings run 0..MaxClock.
MaxClock == 1
\* The caller makes at most MaxCalls calls on the store it has constructed.
MaxCalls == 3

-----------------------------------------------------------------------------
(* Sequence helpers. *)

Range(s) == {s[i] : i \in 1..Len(s)}

\* s with its i-th element removed (del s[i]).
RemoveAt(s, i) == SubSeq(s, 1, i - 1) \o SubSeq(s, i + 1, Len(s))

\* s[offset:] of Python, offset >= 0.
DropFirst(s, offset) == SubSeq(s, offset + 1, Len(s))

\* s[:limit] of Python, limit >= 0.
TakeFirst(s, limit) == SubSeq(s, 1, IF limit < Len(s) THEN limit ELSE Len(s))

-----------------------------------------------------------------------------
(* Memory: the dataclass of backends.py. *)

Categories == {"semantic", "episodic", "procedural"}

Fields == {"id", "content", "category", "created_at", "updated_at", "metadata"}

\* Fields without a default: Memory.__init__ raises TypeError when one is missing.
RequiredFields == Fields \ {"metadata"}

\* field(default_factory=dict)
EmptyDict == <<>>

Memory(id, content, category, created_at, updated_at, metadata) ==
    [id |-> id, content |-> content, category |-> category,
     created_at |-> created_at, updated_at |-> updated_at, metadata |-> metadata]

\* asdict as it would be if it left the metadata field out.
to_dict_drops_metadata(m) == [k \in RequiredFields |-> m[k]]

\* Memory.to_dict: asdict(self), a dict of the six fields.
to_dict(m) == [k \in Fields |-> m[k]]

\* A JSON value is a dict (a function from field names) or a scalar such as 5,
\* written [scalar |-> "5"] so that every value is a function on strings.
Scalar(x) == [scalar |-> x]
IsDict(v) == "scalar" \notin DOMAIN v

\* Memory.from_dict: cls(**data).  TypeError when data is no mapping, lacks a
\* required field or has a key that is no field.
FromDictRaises(d) ==
    \/ ~IsDict(d)
    \/ ~(RequiredFields \subseteq DOMAIN d)
    \/ ~(DOMAIN d \subseteq Fields)

from_dict(d) ==
    Memory(d.id, d.content, d.category, d.created_at, d.updated_at,
           IF "metadata" \in DOMAIN d THEN d.metadata ELSE EmptyDict)

Ids(ms) == {ms[i].id : i \in 1..Len(ms)}

-----------------------------------------------------------------------------
(* The JSON text of memories.json, as tokens.  Tok("env[") stands for        *)
(* {"schema_version": "1.0", "memories": [ and Tok("]env") for ]}; a legacy  *)
(* file is Tok("[") values Tok("]").  Every value between them is one token. *)

SCHEMA_VERSION == "1.0"

Tok(name) == [tok |-> name]
IsValue(t) == "tok" \notin DOMAIN t

Middle(bytes) == SubSeq(bytes, 2, Len(bytes) - 1)

Bracketed(bytes, open, close) ==
    /\ Len(bytes) >= 2
    /\ bytes[1] = Tok(open)
    /\ bytes[Len(bytes)] = Tok(close)
    /\ \A i \in 2..(Len(bytes) - 1) : IsValue(bytes[i])

\* The dict save() serialises (backends.py 166-169).
Envelope(ms) ==
    [schema_version |-> SCHEMA_VERSION,
     memories |-> [i \in 1..Len(ms) |-> to_dict(ms[i])]]

\* json.dump(data, f, indent=2): the text written for the envelope dict.
JsonDump(data) == <<Tok("env[")>> \o data.memories \o <<Tok("]env")>>

\* json.load(f) of the whole text: the Python value, or JSONDecodeError.
\*   type      "dict", "list", "scalar" or "error" (JSONDecodeError)
\*   keys      the keys of a dict
\*   iterable  whether data.get("memories", []) can be iterated
\*   items     the elements of the list, or of data.get("memories", [])
JsonLoad(bytes) ==
    IF Bracketed(bytes, "env[", "]env")
    THEN [type |-> "dict", keys |-> {"schema_version", "memories"},
          iterable |-> TRUE, items |-> Middle(bytes)]
    ELSE IF bytes = <<Tok("env_without_memories")>>
    THEN [type |-> "dict", keys |-> {"schema_version"}, iterable |-> TRUE, items |-> <<>>]
    ELSE IF bytes = <<Tok("env_memories_5")>>
    THEN [type |-> "dict", keys |-> {"schema_version", "memories"},
          iterable |-> FALSE, items |-> <<>>]
    ELSE IF Bracketed(bytes, "[", "]")
    THEN [type |-> "list", keys |-> {}, iterable |-> TRUE, items |-> Middle(bytes)]
    ELSE IF Len(bytes) = 1 /\ IsValue(bytes[1])
    THEN [type |-> IF IsDict(bytes[1]) THEN "dict" ELSE "scalar",
          keys |-> {}, iterable |-> TRUE, items |-> <<>>]
    ELSE [type |-> "error", keys |-> {}, iterable |-> FALSE, items |-> <<>>]

-----------------------------------------------------------------------------
(* JSONBackend, one call at a time.  A backend value b holds the instance's *)
(* cache and its file in b.memories, b.file and b.fstat.  A call returns    *)
(*   [b |-> the backend afterwards, ret |-> the value returned,             *)
(*    raised |-> "none" or the exception that left the call].               *)

\* b with the JSONBackend fields replaced.
JB(b, ms, f, st) == [b EXCEPT !.memories = ms, !.file = f, !.fstat = st]

Result(b, ret, raised) == [b |-> b, ret |-> ret, raised |-> raised]

\* backends.py 136-152: what load() does with the parsed data.
\*   migrate: the legacy branch, which caches and saves ret before returning it.
DecodeData(data) ==
    IF data.type = "dict" /\ "schema_version" \in data.keys
    THEN IF ~data.iterable \/ \E i \in 1..Len(data.items) : FromDictRaises(data.items[i])
         THEN [raised |-> "TypeError", migrate |-> FALSE, ret |-> <<>>]
         ELSE [raised |-> "none", migrate |-> FALSE,
               ret |-> [i \in 1..Len(data.items) |-> from_dict(data.items[i])]]
    ELSE IF data.type = "list"
    THEN IF \E i \in 1..Len(data.items) : FromDictRaises(data.items[i])
         THEN [raised |-> "TypeError", migrate |-> FALSE, ret |-> <<>>]
         ELSE [raised |-> "none", migrate |-> TRUE,
               ret |-> [i \in 1..Len(data.items) |-> from_dict(data.items[i])]]
    ELSE [raised |-> "none", migrate |-> FALSE, ret |-> <<>>]

\* JSONBackend.save: the cache is replaced, then the file is opened for
\* writing (created when missing; PermissionError when it cannot be opened).
JSONBackend_save(b, ms) ==
    IF b.fstat = "unreadable"
    THEN Result(JB(b, ms, b.file, b.fstat), "None", "OSError")
    ELSE Result(JB(b, ms, JsonDump(Envelope(ms)), "ok"), "None", "none")

\* load as it would be with lines 147-148 left out: the legacy records are
\* returned and nothing is written.
JSONBackend_load_without_migration(b) ==
    IF b.fstat # "ok" THEN Result(b, <<>>, "none")
    ELSE LET data == JsonLoad(b.file)
             d == DecodeData(data)
         IN  IF data.type = "error" THEN Result(b, <<>>, "none")
             ELSE IF d.raised # "none" THEN Result(b, <<>>, d.raised)
             ELSE Result(b, d.ret, "none")

\* JSONBackend.load.  FileNotFoundError, OSError and JSONDecodeError give [].
JSONBackend_load(b) ==
    IF b.fstat # "ok" THEN Result(b, <<>>, "none")
    ELSE LET data == JsonLoad(b.file)
             d == DecodeData(data)
         IN  IF data.type = "error" THEN Result(b, <<>>, "none")
             ELSE IF d.raised # "none" THEN Result(b, <<>>, d.raised)
             ELSE IF d.migrate
             THEN LET s == JSONBackend_save(b, d.ret)
                  IN  IF s.raised = "OSError" THEN Result(s.b, <<>>, "none")
                      ELSE Result(s.b, d.ret, "none")
             ELSE Result(b, d.ret, "none")

\* JSONBackend.__init__: _ensure_storage, then _load_cache.
JSONBackend_init(b) ==
    LET made == IF b.fstat = "missing" THEN JB(b, <<>>, JsonDump(Envelope(<<>>)), "ok")
                ELSE JB(b, <<>>, b.file, b.fstat)
        l == JSONBackend_load(made)
    IN  IF l.raised # "none" THEN Result(l.b, "None", l.raised)
        ELSE Result([l.b EXCEPT !.memories = l.ret], "None", "none")

\* JSONBackend.add
JSONBackend_add(b, memory) ==
    JSONBackend_save(b, Append(b.memories, memory))

\* JSONBackend.delete: the first record with the id is removed.
JSONBackend_delete(b, memory_id) ==
    IF \E i \in 1..Len(b.memories) : b.memories[i].id = memory_id
    THEN LET i == CHOOSE k \in 1..Len(b.memories) :
                      /\ b.memories[k].id = memory_id
                      /\ \A j \in 1..(k - 1) : b.memories[j].id # memory_id
             s == JSONBackend_save(b, RemoveAt(b.memories, i))
         IN  Result(s.b, TRUE, s.raised)
    ELSE Result(b, FALSE, "none")

\* JSONBackend.get_all(offset, limit); limit = -1 stands for None.
JSONBackend_get_all(b, offset, limit) ==
    LET rest == DropFirst(b.memories, offset)
    IN  IF limit = -1 THEN rest ELSE TakeFirst(rest, limit)

\* JSONBackend.get_by_category
JSONBackend_get_by_category(b, category) ==
    SelectSeq(b.memories, LAMBDA m : m.category = category)

-----------------------------------------------------------------------------
(* Texts: str.lower, the in operator on strings, str.split, str.strip. *)

UpperToLower ==
    [A |-> "a", B |-> "b", C |-> "c", D |-> "d", E |-> "e", F |-> "f", G |-> "g",
     H |-> "h", I |-> "i", J |-> "j", K |-> "k", L |-> "l", M |-> "m", N |-> "n",
     O |-> "o", P |-> "p", Q |-> "q", R |-> "r", S |-> "s", T |-> "t", U |-> "u",
     V |-> "v", W |-> "w", X |-> "x", Y |-> "y", Z |-> "z"]

\* str.isupper of one character
IsUpper(c) == c \in DOMAIN UpperToLower

LowerChar(c) == IF IsUpper(c) THEN UpperToLower[c] ELSE c

\* str.lower
Lower(text) == [i \in 1..Len(text) |-> LowerChar(text[i])]

\* needle in text
Contains(text, needle) ==
    \E i \in 0..(Len(text) - Len(needle)) :
        \A j \in 1..Len(needle) : text[i + j] = needle[j]

Whitespace == {" ", "\n"}

RECURSIVE SplitFrom(_, _, _)
\* The words of text[i..], cur being the word read so far.
SplitFrom(text, i, cur) ==
    IF i > Len(text) THEN (IF cur = <<>> THEN <<>> ELSE <<cur>>)
    ELSE IF text[i] \in Whitespace
    THEN (IF cur = <<>> THEN <<>> ELSE <<cur>>) \o SplitFrom(text, i + 1, <<>>)
    ELSE SplitFrom(text, i + 1, Append(cur, text[i]))

\* str.split(): the maximal runs of non-whitespace
Split(text) == SplitFrom(text, 1, <<>>)

\* The characters of word.strip('.,!?:;()[]{}')
StripChars == {".", ",", "!", "?", ":", ";", "(", ")", "[", "]", "{", "}"}

RECURSIVE LStrip(_)
LStrip(w) == IF w # <<>> /\ Head(w) \in StripChars THEN LStrip(Tail(w)) ELSE w

RECURSIVE RStrip(_)
RStrip(w) ==
    IF w # <<>> /\ w[Len(w)] \in StripChars THEN RStrip(SubSeq(w, 1, Len(w) - 1)) ELSE w

Strip(w) == RStrip(LStrip(w))

\* The skipped sentence starters of _extract_entities (backends.py 328).
Stoplist ==
    { <<"t", "h", "e">>, <<"a">>, <<"a", "n">>, <<"t", "h", "i", "s">>,
      <<"t", "h", "a", "t">>, <<"u", "s", "e", "r">>, <<"i">> }

RECURSIVE QuotedFrom(_, _)
\* re.findall(r'"([^"]+)"', text[i..]): leftmost, non-overlapping matches.
QuotedFrom(text, i) ==
    IF i > Len(text) THEN {}
    ELSE IF text[i] # "\"" THEN QuotedFrom(text, i + 1)
    ELSE LET closings == {j \in (i + 1)..Len(text) : text[j] = "\""}
         IN  IF closings = {} THEN {}
             ELSE LET j == CHOOSE k \in closings : \A l \in closings : k <= l
                  IN  IF j = i + 1 THEN QuotedFrom(text, i + 1)
                      ELSE {SubSeq(text, i + 1, j - 1)} \cup QuotedFrom(text, j + 1)

\* The capitalised words, the stoplist left out of the test.
ProperNouns_without_stoplist(content) ==
    {Strip(w) : w \in {x \in Range(Split(content)) :
        LET clean == Strip(x)
        IN  clean # <<>> /\ IsUpper(clean[1]) /\ Len(clean) > 1}}

\* The capitalised words of _extract_entities (backends.py 323-329).
ProperNouns(content) ==
    {Strip(w) : w \in {x \in Range(Split(content)) :
        LET clean == Strip(x)
        IN  /\ clean # <<>> /\ IsUpper(clean[1]) /\ Len(clean) > 1
            /\ Lower(clean) \notin Stoplist}}

\* GraphBackend._extract_entities: list(set(entities)), as a set.
ExtractEntities(content) == QuotedFrom(content, 1) \cup ProperNouns(content)

-----------------------------------------------------------------------------
(* The graph engine port, as GraphBackend uses it: a set of triples        *)
(* <<subject, predicate, object>>.  Node names are tuples: "memory:<id>"   *)
(* is <<"memory", id>>, "entity:<key>" is <<"entity", key>>.  Traversals   *)
(* return node names; the engine fixes no order, so they are sets.         *)

\* graph.put(s, p, o)
Put(g, s, p, o) == g \cup {<<s, p, o>>}

\* graph.drop(s, p, o)
Drop(g, s, p, o) == g \ {<<s, p, o>>}

\* graph.v(node).inc(p).all()
Inc(g, node, p) == {t[1] : t \in {u \in g : u[2] = p /\ u[3] = node}}

\* graph.v(node).out(p).all()
Out(g, node, p) == {t[3] : t \in {u \in g : u[1] = node /\ u[2] = p}}

\* graph.v().has(p, o).all()
Has(g, p, o) == {t[1] : t \in {u \in g : u[2] = p /\ u[3] = o}}

MemoryNode(id) == <<"memory", id>>
EntityNode(key) == <<"entity", key>>
CategoryNode(c) == <<"category", c>>
DateNode(d) == <<"date", d>>
StepNode(id, i) == <<"step", id, i>>

IsMemoryNode(n) == Len(n) = 2 /\ n[1] = "memory"
IsEntityNode(n) == Len(n) = 2 /\ n[1] = "entity"

\* json.dumps(metadata) and json.loads of it
MetadataJson(metadata) == [json |-> metadata]
MetadataOfJson(text) == text.json

\* created_at[:10], the day of an ISO timestamp: TicksPerDay readings a day.
TicksPerDay == 2
Day(ts) == ts \div TicksPerDay

-----------------------------------------------------------------------------
(* GraphBackend.  b.memories_cache is the dict in insertion order,          *)
(* b.graph the engine's triples.                                            *)

GB(b, cache, g) == [b EXCEPT !.memories_cache = cache, !.graph = g]

InCache(cache, id) == \E i \in 1..Len(cache) : cache[i].id = id

\* cache[id]
CacheGet(cache, id) == cache[CHOOSE i \in 1..Len(cache) : cache[i].id = id]

\* cache[memory.id] = memory: a new key goes last, an old key keeps its place.
CachePut(cache, memory) ==
    IF InCache(cache, memory.id)
    THEN [i \in 1..Len(cache) |-> IF cache[i].id = memory.id THEN memory ELSE cache[i]]
    ELSE Append(cache, memory)

\* del cache[id]
CacheDel(cache, id) == SelectSeq(cache, LAMBDA m : m.id # id)

\* backends.py 342-351: the memory node, its properties and its category edge.
MemoryTriples(memory) ==
    LET n == MemoryNode(memory.id)
    IN  { <<n, "type", "memory">>,
          <<n, "id", memory.id>>,
          <<n, "content", memory.content>>,
          <<n, "category", memory.category>>,
          <<n, "created_at", memory.created_at>>,
          <<n, "updated_at", memory.updated_at>>,
          <<n, "metadata", MetadataJson(memory.metadata)>>,
          <<n, "IS_A", CategoryNode(memory.category)>> }

\* backends.py 354-359: the entity nodes and the MENTIONS edges.
EntityTriples(memory) ==
    UNION { { <<EntityNode(Lower(e)), "type", "entity">>,
              <<EntityNode(Lower(e)), "name", e>>,
              <<MemoryNode(memory.id), "MENTIONS", EntityNode(Lower(e))>> }
            : e \in ExtractEntities(memory.content) }

\* backends.py 362-364: the date edge of an episodic memory.
DateTriples(memory) ==
    IF memory.category = "episodic"
    THEN {<<MemoryNode(memory.id), "OCCURRED_ON", DateNode(Day(memory.created_at))>>}
    ELSE {}

\* str(i) of an index of enumerate(steps)
IndexStr(i) == <<"0", "1", "2", "3", "4", "5", "6", "7", "8", "9">>[i + 1]

\* backends.py 367-373: the step nodes of a procedural memory.
StepTriples(memory) ==
    IF memory.category = "procedural" /\ "steps" \in DOMAIN memory.metadata
    THEN UNION { { <<StepNode(memory.id, i - 1), "type", "step">>,
                   <<StepNode(memory.id, i - 1), "content", memory.metadata.steps[i]>>,
                   <<StepNode(memory.id, i - 1), "order", IndexStr(i - 1)>>,
                   <<MemoryNode(memory.id), "HAS_STEP", StepNode(memory.id, i - 1)>> }
                 : i \in 1..Len(memory.metadata.steps) }
    ELSE {}

\* GraphBackend.add
GraphBackend_add(b, memory) ==
    Result(GB(b, CachePut(b.memories_cache, memory),
              b.graph \cup MemoryTriples(memory) \cup EntityTriples(memory)
                      \cup DateTriples(memory) \cup StepTriples(memory)),
           "None", "none")

RECURSIVE AddAll(_, _)
\* for memory in memories: self.add(memory)
AddAll(b, ms) ==
    IF ms = <<>> THEN b ELSE AddAll(GraphBackend_add(b, Head(ms)).b, Tail(ms))

\* GraphBackend.save: the cache is cleared, every memory is added again;
\* nothing is dropped from the engine.
GraphBackend_save(b, ms) ==
    Result(AddAll(GB(b, <<>>, b.graph), ms), "None", "none")

\* GraphBackend.load
GraphBackend_load(b) == Result(b, b.memories_cache, "none")

\* GraphBackend.delete: the type and IS_A facts are dropped, the other
\* triples of the memory node stay.
GraphBackend_delete(b, memory_id) ==
    IF ~InCache(b.memories_cache, memory_id) THEN Result(b, FALSE, "none")
    ELSE LET n == MemoryNode(memory_id)
             c == CacheGet(b.memories_cache, memory_id).category
         IN  Result(GB(b, CacheDel(b.memories_cache, memory_id),
                       Drop(Drop(b.graph, n, "type", "memory"), n, "IS_A", CategoryNode(c))),
                    TRUE, "none")

\* GraphBackend.get_all(offset, limit); limit = -1 stands for None.
GraphBackend_get_all(b, offset, limit) ==
    LET rest == DropFirst(b.memories_cache, offset)
    IN  IF limit = -1 THEN rest ELSE TakeFirst(rest, limit)

\* GraphBackend.get_by_category
GraphBackend_get_by_category(b, category) ==
    SelectSeq(b.memories_cache, LAMBDA m : m.category = category)

\* The orders in which the engine may list the nodes of a set.
Orders(S) ==
    {f \in [1..Cardinality(S) -> S] : \A i, j \in 1..Cardinality(S) : f[i] = f[j] => i = j}

\* "if category and memory.category != category: continue"; "None" is None.
CategoryPasses(memory, category) == category = "None" \/ memory.category = category

\* The content search as it would be without the two lower() calls.
DirectMatches_case_sensitive(ms, query, category) ==
    SelectSeq(ms, LAMBDA m : CategoryPasses(m, category) /\ Contains(m.content, query))

\* The direct content search of search() (both backends).
DirectMatches(ms, query, category) ==
    SelectSeq(ms, LAMBDA m : /\ CategoryPasses(m, category)
                              /\ Contains(Lower(m.content), Lower(query)))

\* JSONBackend.search
JSONBackend_search(b, query, category, limit) ==
    TakeFirst(DirectMatches(b.memories, query, category), limit)

RECURSIVE MergeMentioning_with_repeats(_, _, _, _)
\* The merge without the test "memory not in results".
MergeMentioning_with_repeats(cache, results, mentioning, category) ==
    IF mentioning = <<>> THEN results
    ELSE LET node == Head(mentioning)
             take == /\ IsMemoryNode(node)
                     /\ InCache(cache, node[2])
                     /\ CategoryPasses(CacheGet(cache, node[2]), category)
         IN  MergeMentioning_with_repeats(cache,
                 IF take THEN Append(results, CacheGet(cache, node[2])) ELSE results,
                 Tail(mentioning), category)

RECURSIVE MergeMentioning(_, _, _, _)
\* backends.py 433-440: the memories of the traversal, appended when cached,
\* not yet in results (dataclass equality) and of the category.
MergeMentioning(cache, results, mentioning, category) ==
    IF mentioning = <<>> THEN results
    ELSE LET node == Head(mentioning)
             take == /\ IsMemoryNode(node)
                     /\ InCache(cache, node[2])
                     /\ CacheGet(cache, node[2]) \notin Range(results)
                     /\ CategoryPasses(CacheGet(cache, node[2]), category)
         IN  MergeMentioning(cache,
                 IF take THEN Append(results, CacheGet(cache, node[2])) ELSE results,
                 Tail(mentioning), category)

\* GraphBackend.search; mentioning is graph.v(entity).inc("MENTIONS").all()
\* in the order the engine lists it.
GraphBackend_search(b, query, category, limit, mentioning) ==
    LET direct == DirectMatches(b.memories_cache, query, category)
    IN  TakeFirst(IF Len(direct) < limit
                  THEN MergeMentioning(b.memories_cache, direct, mentioning, category)
                  ELSE direct, limit)

\* The memory ids that mention the entity key (incoming MENTIONS edges).
Mentioning(g, key) == {n[2] : n \in {x \in Inc(g, EntityNode(key), "MENTIONS") : IsMemoryNode(x)}}

\* The second hop as it would be if it followed the MENTIONS edges of the
\* memories found but did not come back from their entities.
CoMentioning_without_return(g, ids) == {}

\* backends.py 492-503: one more hop from the memories found.
CoMentioning(g, ids) ==
    UNION { UNION { {n[2] : n \in {x \in Inc(g, ent, "MENTIONS") : IsMemoryNode(x)}}
                    : ent \in {e \in Out(g, MemoryNode(id), "MENTIONS") : IsEntityNode(e)} }
            : id \in ids }

\* find_related as it would be without the "mid in self._memories_cache"
\* filter of line 508: every memory node the traversal reaches is returned.
GraphBackend_find_related_uncached(b, query, depth) ==
    LET direct == Mentioning(b.graph, Lower(query))
        related_ids == IF depth > 1 THEN direct \cup CoMentioning(b.graph, direct) ELSE direct
    IN  {Memory(mid, <<>>, "semantic", 0, 0, EmptyDict) : mid \in related_ids}

\* find_related whose second hop is taken at depth 2 only.
GraphBackend_find_related_at_two(b, query, depth) ==
    LET direct == Mentioning(b.graph, Lower(query))
        related_ids == IF depth = 2 THEN direct \cup CoMentioning(b.graph, direct) ELSE direct
    IN  {CacheGet(b.memories_cache, mid) :
            mid \in {x \in related_ids : InCache(b.memories_cache, x)}}

\* GraphBackend.find_related.  related_ids is a Python set, so the list
\* returned has no fixed order: the result is the set of its records.
GraphBackend_find_related(b, query, depth) ==
    LET direct == Mentioning(b.graph, Lower(query))
        related_ids == IF depth > 1 THEN direct \cup CoMentioning(b.graph, direct) ELSE direct
    IN  {CacheGet(b.memories_cache, mid) :
            mid \in {x \in related_ids : InCache(b.memories_cache, x)}}

\* get_entity_graph that compares the entity keys with the argument as given.
GraphBackend_get_entity_graph_as_given(b, entity) ==
    LET found == {x \in Mentioning(b.graph, Lower(entity)) : InCache(b.memories_cache, x)}
    IN  [memories |-> {CacheGet(b.memories_cache, mid) : mid \in found},
         related_entities |->
            UNION { {e[2] : e \in {x \in Out(b.graph, MemoryNode(mid), "MENTIONS") :
                                      IsEntityNode(x) /\ x[2] # entity}}
                    : mid \in found }]

\* GraphBackend.get_entity_graph.  Both lists come in engine order: as sets.
GraphBackend_get_entity_graph(b, entity) ==
    LET found == {x \in Mentioning(b.graph, Lower(entity)) : InCache(b.memories_cache, x)}
    IN  [memories |-> {CacheGet(b.memories_cache, mid) : mid \in found},
         related_entities |->
            UNION { {e[2] : e \in {x \in Out(b.graph, MemoryNode(mid), "MENTIONS") :
                                      IsEntityNode(x) /\ x[2] # Lower(entity)}}
                    : mid \in found }]

\* The Memory objects _load_cache can build for one node: a predicate with
\* several objects (a re-added memory) yields either.
NodeMemories(g, n) ==
    { Memory(i, c, k, cr, up, MetadataOfJson(md)) :
        i \in Out(g, n, "id"), c \in Out(g, n, "content"), k \in Out(g, n, "category"),
        cr \in Out(g, n, "created_at"), up \in Out(g, n, "updated_at"),
        md \in Out(g, n, "metadata") }

RECURSIVE CacheOfNodes(_, _)
CacheOfNodes(cache, ms) ==
    IF ms = <<>> THEN cache ELSE CacheOfNodes(CachePut(cache, Head(ms)), Tail(ms))

\* GraphBackend._load_cache on a new instance: the caches it may build from
\* the nodes with type memory, in any engine order.
LoadCacheChoices(g) ==
    LET nodes == Has(g, "type", "memory")
    IN  UNION { { CacheOfNodes(<<>>, ms) :
                    ms \in {x \in [1..Cardinality(nodes) -> UNION {NodeMemories(g, n) : n \in nodes}] :
                              \A i \in 1..Cardinality(nodes) : x[i] \in NodeMemories(g, order[i])} }
                : order \in Orders(nodes) }

\* The constructor as it would be if it did what the demonstration at the end
\* of memory.py does around it: on ImportError a JSONBackend is constructed.
GraphBackend_init_with_fallback(b, importable, cache) ==
    IF ~importable THEN JSONBackend_init(b)
    ELSE Result(GB(b, cache, b.graph), "None", "none")

\* GraphBackend.__init__ and _init_graph: without the cog package the import
\* fails and _init_graph raises ImportError, which nothing on the way back to
\* the caller catches; with it the cache is loaded from the engine.
GraphBackend_init(b, importable, cache) ==
    IF ~importable THEN Result(b, "None", "ImportError")
    ELSE Result(GB(b, cache, b.graph), "None", "none")

-----------------------------------------------------------------------------
(* GraphBackend when a call of the engine raises.  e is the exception the    *)
(* first engine call inside the try block raises; a handler contains it when *)
(* its except clause names the type.                                         *)

\* except (KeyError, AttributeError, TypeError): search, find_related, get_entity_graph
QueryCatches == {"KeyError", "AttributeError", "TypeError"}
\* except (KeyError, AttributeError, RuntimeError): delete
DeleteCatches == {"KeyError", "AttributeError", "RuntimeError"}
\* except (KeyError, TypeError, json.JSONDecodeError): _load_cache
LoadCatches == {"KeyError", "TypeError", "JSONDecodeError"}

\* _load_cache when has("type", "memory").all() or json.loads raises: the cache
\* stays empty, or the exception leaves the constructor (_init_graph catches
\* ImportError only).
GraphBackend_init_raising(b, e) ==
    IF e \in LoadCatches THEN Result(GB(b, <<>>, b.graph), "None", "none")
    ELSE Result(b, "None", e)

\* search when the traversal raises: the direct matches, or the exception.
GraphBackend_search_raising(b, query, category, limit, e) ==
    LET direct == DirectMatches(b.memories_cache, query, category)
    IN  IF Len(direct) < limit /\ e \notin QueryCatches THEN Result(b, <<>>, e)
        ELSE Result(b, TakeFirst(direct, limit), "none")

\* find_related when the first traversal raises (hop 1: nothing was found) or
\* the traversal of the second hop does (hop 2: the direct ones were found).
GraphBackend_find_related_raising(b, query, depth, hop, e) ==
    IF hop = 2 /\ (depth <= 1 \/ Mentioning(b.graph, Lower(query)) = {})
    THEN Result(b, GraphBackend_find_related(b, query, depth), "none")
    ELSE IF e \notin QueryCatches THEN Result(b, {}, e)
    ELSE IF hop = 1 THEN Result(b, {}, "none")
    ELSE Result(b, GraphBackend_find_related(b, query, 1), "none")

\* get_entity_graph when the first traversal raises.
GraphBackend_get_entity_graph_raising(b, entity, e) ==
    IF e \notin QueryCatches THEN Result(b, [memories |-> {}, related_entities |-> {}], e)
    ELSE Result(b, [memories |-> {}, related_entities |-> {}], "none")

\* delete when the first drop raises: the record leaves the cache all the
\* same, or the exception leaves delete before "del self._memories_cache[...]".
GraphBackend_delete_raising(b, memory_id, e) ==
    IF ~InCache(b.memories_cache, memory_id) THEN Result(b, FALSE, "none")
    ELSE IF e \notin DeleteCatches THEN Result(b, FALSE, e)
    ELSE Result(GB(b, CacheDel(b.memories_cache, memory_id), b.graph), TRUE, "none")

-----------------------------------------------------------------------------
(* MemoryStore (memory.py): the facade over the selected backend. *)

\* self._backend.<method>: the call goes to the backend selected at construction.
Backend_add(b, memory) ==
    IF b.backend = "json" THEN JSONBackend_add(b, memory) ELSE GraphBackend_add(b, memory)

Backend_save(b, ms) ==
    IF b.backend = "json" THEN JSONBackend_save(b, ms) ELSE GraphBackend_save(b, ms)

Backend_load(b) ==
    IF b.backend = "json" THEN JSONBackend_load(b) ELSE GraphBackend_load(b)

Backend_delete(b, memory_id) ==
    IF b.backend = "json" THEN JSONBackend_delete(b, memory_id)
    ELSE GraphBackend_delete(b, memory_id)

Backend_get_all(b, offset, limit) ==
    IF b.backend = "json" THEN JSONBackend_get_all(b, offset, limit)
    ELSE GraphBackend_get_all(b, offset, limit)

\* get_by_category as it would be without the category test.
Backend_get_by_category_unfiltered(b, category) == Backend_get_all(b, 0, -1)

Backend_get_by_category(b, category) ==
    IF b.backend = "json" THEN JSONBackend_get_by_category(b, category)
    ELSE GraphBackend_get_by_category(b, category)

\* None, where a Memory may be returned instead
NoneValue == [none |-> TRUE]
IsNone(v) == "none" \in DOMAIN v

\* MemoryStore.memories
StoreMemories(b) == Backend_get_all(b, 0, -1)

\* MemoryStore._generate_id: sha256(f"{content}{timestamp}")[:12], timestamp
\* being the reading of the clock at the call.
GenerateId(text, timestamp) == <<text, timestamp>>

\* MemoryStore.add_fact; t1 is the reading taken for created_at, t2 the later
\* reading taken by _generate_id.
add_fact(b, fact, metadata, t1, t2) ==
    LET memory == Memory(GenerateId(fact, t2), fact, "semantic", t1, t1, metadata)
        r == Backend_add(b, memory)
    IN  Result(r.b, memory, r.raised)

\* {"timestamp": now, **metadata}: the caller's keys come last and win.
EpisodeMetadata(t1, metadata) ==
    [k \in {"timestamp"} \cup DOMAIN metadata |->
        IF k \in DOMAIN metadata THEN metadata[k] ELSE t1]

\* MemoryStore.add_episode
add_episode(b, summary, metadata, t1, t2) ==
    LET memory == Memory(GenerateId(summary, t2), summary, "episodic", t1, t1,
                         EpisodeMetadata(t1, metadata))
        r == Backend_add(b, memory)
    IN  Result(r.b, memory, r.raised)

\* str(i) for the step numbers
Digits == <<"1", "2", "3", "4", "5", "6", "7", "8", "9">>

RECURSIVE StepLines(_, _)
\* "\n".join(f"{i+1}. {step}" for i, step in enumerate(steps)), from step i on
StepLines(steps, i) ==
    IF i > Len(steps) THEN <<>>
    ELSE (IF i > 1 THEN <<"\n">> ELSE <<>>)
         \o <<Digits[i], ".", " ">> \o steps[i] \o StepLines(steps, i + 1)

\* f"Procedure: {name}\nSteps:\n" + the numbered steps
ProcedureContent(name, steps) ==
    <<"P", "r", "o", "c", "e", "d", "u", "r", "e", ":", " ">> \o name
    \o <<"\n", "S", "t", "e", "p", "s", ":", "\n">> \o StepLines(steps, 1)

\* {"procedure_name": name, "steps": steps, **metadata}
ProcedureMetadata(name, steps, metadata) ==
    [k \in {"procedure_name", "steps"} \cup DOMAIN metadata |->
        IF k \in DOMAIN metadata THEN metadata[k]
        ELSE IF k = "procedure_name" THEN name ELSE steps]

\* MemoryStore.add_procedure: the id is generated from the name.
add_procedure(b, name, steps, metadata, t1, t2) ==
    LET memory == Memory(GenerateId(name, t2), ProcedureContent(name, steps),
                         "procedural", t1, t1, ProcedureMetadata(name, steps, metadata))
        r == Backend_add(b, memory)
    IN  Result(r.b, memory, r.raised)

\* MemoryStore.get_procedure: the first procedural record of self.memories
\* whose metadata.get("procedure_name") is the name, else None.
get_procedure(b, name) ==
    LET ms == StoreMemories(b)
        hits == {i \in 1..Len(ms) :
                    /\ ms[i].category = "procedural"
                    /\ "procedure_name" \in DOMAIN ms[i].metadata
                    /\ ms[i].metadata["procedure_name"] = name}
    IN  IF hits = {} THEN NoneValue
        ELSE ms[CHOOSE k \in hits : \A j \in hits : k <= j]

\* The assignment as it would be if get_all() returned copies of the
\* records: the backend's own records keep their fields.
Mutate_on_copy(b, i, memory) == b

\* The Memory objects of get_all() are the backend's own: an assignment to
\* the i-th of them changes the i-th record the backend holds.
Mutate(b, i, memory) ==
    IF b.backend = "json"
    THEN [b EXCEPT !.memories = [b.memories EXCEPT ![i] = memory]]
    ELSE [b EXCEPT !.memories_cache = [b.memories_cache EXCEPT ![i] = memory]]

\* MemoryStore.update_fact; t is the clock reading for updated_at.
update_fact(b, old_content, new_content, t) ==
    LET ms == StoreMemories(b)
        hits == {i \in 1..Len(ms) : ms[i].category = "semantic" /\ ms[i].content = old_content}
    IN  IF hits = {} THEN Result(b, NoneValue, "none")
        ELSE LET i == CHOOSE k \in hits : \A j \in hits : k <= j
                 memory == [ms[i] EXCEPT !.content = new_content, !.updated_at = t]
                 b1 == Mutate(b, i, memory)
                 r == Backend_save(b1, StoreMemories(b1))
             IN  Result(r.b, memory, r.raised)

\* MemoryStore.delete
store_delete(b, memory_id) == Backend_delete(b, memory_id)

\* MemoryStore.clear_all
clear_all(b) == Backend_save(b, <<>>)

\* MemoryStore.search; mentioning is the engine's answer to the traversal of
\* GraphBackend.search, which JSONBackend.search does not make.
store_search(b, query, category, limit, mentioning) ==
    IF b.backend = "json" THEN JSONBackend_search(b, query, category, limit)
    ELSE GraphBackend_search(b, query, category, limit, mentioning)

\* MemoryStore.stats
stats(b) ==
    [total |-> Len(StoreMemories(b)),
     semantic |-> Len(Backend_get_by_category(b, "semantic")),
     episodic |-> Len(Backend_get_by_category(b, "episodic")),
     procedural |-> Len(Backend_get_by_category(b, "procedural")),
     backend |-> b.backend]

\* The default limit of search()
DefaultLimit == 5

\* MemoryStore.find_related: the graph traversal, or search(query) on the
\* file backend; the records returned, as a set.
store_find_related(b, query, depth) ==
    IF b.backend = "graph" THEN GraphBackend_find_related(b, query, depth)
    ELSE Range(JSONBackend_search(b, query, "None", DefaultLimit))

\* The limit get_entity_info passes to search() on the file backend
EntityInfoLimit == 20

\* MemoryStore.get_entity_info
store_get_entity_info(b, entity) ==
    IF b.backend = "graph" THEN GraphBackend_get_entity_graph(b, entity)
    ELSE [memories |-> Range(JSONBackend_search(b, entity, "None", EntityInfoLimit)),
          related_entities |-> {}]

\* sorted(episodes, key=lambda m: m.created_at, reverse=True): the later
\* first, records of one created_at in the order they had.
RECURSIVE SortedRecentFirst(_)
SortedRecentFirst(ms) ==
    IF ms = <<>> THEN <<>>
    ELSE LET rest == SortedRecentFirst(Tail(ms))
             later == SelectSeq(rest, LAMBDA m : m.created_at > Head(ms).created_at)
             others == SelectSeq(rest, LAMBDA m : m.created_at <= Head(ms).created_at)
         IN  later \o <<Head(ms)>> \o others

\* get_recent_episodes without sorted(): the episodes in stored order.
get_recent_episodes_unsorted(b, limit) ==
    TakeFirst(Backend_get_by_category(b, "episodic"), limit)

\* MemoryStore.get_recent_episodes
get_recent_episodes(b, limit) ==
    TakeFirst(SortedRecentFirst(Backend_get_by_category(b, "episodic")), limit)

RECURSIVE Join(_, _)
\* sep.join(texts)
Join(sep, texts) ==
    IF texts = <<>> THEN <<>>
    ELSE IF Len(texts) = 1 THEN texts[1]
    ELSE texts[1] \o sep \o Join(sep, Tail(texts))

\* The section as it would be without the test of its list: a heading is
\* appended for an empty list too.
Section_unconditional(heading, sep, texts) == <<heading \o <<"\n">> \o Join(sep, texts)>>

\* "if facts: sections.append(f"## Known Facts\n{fact_text}")" and its like
\* for episodes and procedures: what the list adds to sections.
Section(heading, sep, texts) ==
    IF texts = <<>> THEN <<>> ELSE <<heading \o <<"\n">> \o Join(sep, texts)>>

\* MemoryStore.build_context.  related is the semantic records of
\* find_related(query, depth=1) in the order the set of ids gives them,
\* mentioning the engine's answer to search.
\* created_at[:10] is written as the number of the day.
build_context(b, query, max_facts, max_episodes, include_procedures, use_relationships, related, mentioning) ==
    LET facts ==
            IF query # <<>> /\ use_relationships /\ b.backend = "graph"
            THEN TakeFirst(SelectSeq(related, LAMBDA m : m.category = "semantic"), max_facts)
            ELSE IF query # <<>>
            THEN store_search(b, query, "semantic", max_facts, mentioning)
            ELSE TakeFirst(Backend_get_by_category(b, "semantic"), max_facts)
        episodes == get_recent_episodes(b, max_episodes)
        procedures ==
            IF ~include_procedures THEN <<>>
            ELSE IF query # <<>> THEN store_search(b, query, "procedural", 3, mentioning)
            ELSE TakeFirst(Backend_get_by_category(b, "procedural"), 3)
        sections ==
            Section(<<"## Known Facts">>, <<"\n">>,
                    [i \in 1..Len(facts) |-> <<"-", " ">> \o facts[i].content])
            \o Section(<<"## Recent History">>, <<"\n">>,
                       [i \in 1..Len(episodes) |->
                           <<"-", " ", "[", ToString(Day(episodes[i].created_at)), "]", " ">>
                           \o episodes[i].content])
            \o Section(<<"## Available Procedures">>, <<"\n", "\n">>,
                       [i \in 1..Len(procedures) |-> procedures[i].content])
    IN  Join(<<"\n", "\n">>, sections)

\* get_store() of memory.py: the global store, a MemoryStore(backend="graph")
\* that the first call constructs.  isopen tells whether it exists already.
get_store(b, isopen, importable, cache) ==
    IF isopen THEN Result(b, NoneValue, "none")
    ELSE LET r == GraphBackend_init(b, importable, cache)
         IN  Result(r.b, NoneValue, r.raised)

\* remember(content, category, **metadata): the store is fetched first, then
\* the category decides.
remember(b, isopen, importable, cache, content, category, metadata, t1, t2) ==
    LET store == get_store(b, isopen, importable, cache)
    IN  IF store.raised # "none" THEN store
        ELSE IF category = "semantic" THEN add_fact(store.b, content, metadata, t1, t2)
        ELSE IF category = "episodic" THEN add_episode(store.b, content, metadata, t1, t2)
        ELSE Result(store.b, NoneValue, "ValueError")

-----------------------------------------------------------------------------
(* The inputs of the model. *)

TextPy == <<"P", "y">>
TextPyMo == <<"P", "y", " ", "M", "o">>
TextMo == <<"m", "o">>
TextMoCap == <<"M", "o">>

\* Facts, summaries, procedure names and steps the caller passes.
FactInputs == {TextPy, TextPyMo}
\* The new contents update_fact is given.
UpdateInputs == {TextMo}
SummaryInputs == {TextMoCap}
ProcedureInputs == {[name |-> TextPy, steps |-> <<TextMo, TextPy>>]}
\* The **metadata of add_procedure(name, steps, procedure_name="mo").
ProcedureMetadataInputs == {[k \in {"procedure_name"} |-> TextMo]}
\* The **metadata of the caller.
MetadataInputs == {EmptyDict}
\* Queries and entity names the caller passes.
QueryInputs == {TextPy, TextMo}

\* Records found in a memories.json written before the store is opened.
\* The dicts of two records a file holds; they were created at the reading -1,
\* before the readings of the model.
FileRecord1 ==
    [id |-> GenerateId(TextPy, -1), content |-> TextPy, category |-> "semantic",
     created_at |-> -1, updated_at |-> -1, metadata |-> EmptyDict]
FileRecord2 ==
    [id |-> GenerateId(TextMo, -1), content |-> TextMo, category |-> "episodic",
     created_at |-> -1, updated_at |-> -1, metadata |-> [timestamp |-> -1]]
WithoutMetadata(d) == [k \in RequiredFields |-> d[k]]
WithExtraField(d) == [k \in Fields \cup {"extra"} |-> IF k = "extra" THEN "1" ELSE d[k]]
OnlyId(d) == [k \in {"id"} |-> d[k]]

\* The states memories.json can be in when a JSONBackend is constructed.
InitialFiles ==
    { [fstat |-> "missing", file |-> <<>>],
      [fstat |-> "unreadable", file |-> <<>>],
      [fstat |-> "ok", file |-> <<>>],
      [fstat |-> "ok", file |-> <<Tok("junk")>>],
      [fstat |-> "ok", file |-> <<Scalar("5")>>],
      [fstat |-> "ok", file |-> <<[other |-> "1"]>>],
      [fstat |-> "ok", file |-> <<Tok("env_without_memories")>>],
      [fstat |-> "ok", file |-> <<Tok("env_memories_5")>>],
      [fstat |-> "ok", file |-> <<Tok("env["), Tok("]env")>>],
      [fstat |-> "ok", file |-> <<Tok("env["), FileRecord1, FileRecord2, Tok("]env")>>],
      [fstat |-> "ok", file |-> <<Tok("env["), OnlyId(FileRecord1), Tok("]env")>>],
      [fstat |-> "ok", file |-> <<Tok("["), Tok("]")>>],
      [fstat |-> "ok", file |-> <<Tok("["), WithoutMetadata(FileRecord1), FileRecord2, Tok("]")>>],
      [fstat |-> "ok", file |-> <<Tok("["), WithExtraField(FileRecord1), Tok("]")>>],
      [fstat |-> "ok", file |-> <<Tok("["), Scalar("5"), Tok("]")>>] }

-----------------------------------------------------------------------------
(* Spec: one MemoryStore, one caller. *)

\* The store as a value, and the step that installs a call's result.
Store ==
    [backend |-> backend, memories |-> memories, file |-> file, fstat |-> fstat,
     memories_cache |-> memories_cache, graph |-> graph]

Commit(b) ==
    /\ memories' = b.memories
    /\ file' = b.file
    /\ fstat' = b.fstat
    /\ memories_cache' = b.memories_cache
    /\ graph' = b.graph

\* The readings of datetime.now() a call can take: the clock has stood still
\* or has advanced by one since the reading before.
Readings(t) == {u \in {t, t + 1} : u <= MaxClock}

Size == Len(StoreMemories(Store))

\* A finished call, as `last` holds it: the name first, so that calls of
\* different operations, whose arguments and results differ in kind, differ
\* in their first component.
Done(op, arg, ret, raised) == <<op, [arg |-> arg, ret |-> ret, raised |-> raised]>>
Call(op, arg, r) == Done(op, arg, r.ret, r.raised)

Idle == [p \in {} |-> 0]

Init ==
    /\ backend \in {"json", "graph"}
    /\ cog \in BOOLEAN
    /\ (backend = "json" => cog)
    /\ opened = FALSE
    /\ memories = <<>>
    /\ \E f \in InitialFiles :
          /\ (backend = "graph" => f.fstat = "missing")
          /\ file = f.file
          /\ fstat = f.fstat
    /\ memories_cache = <<>>
    /\ graph = {}
    /\ now = 0
    /\ last = Done("none", "None", "None", "none")
    /\ deleted = {}
    /\ calls = 0
    /\ procs = Idle
    /\ locks = Idle

\* MemoryStore(backend=...): get_backend constructs the backend.  A constructor
\* that raises returns no store.
Open ==
    /\ ~opened
    /\ \E cache \in LoadCacheChoices(graph) :
          LET r == IF backend = "json" THEN JSONBackend_init(Store)
                   ELSE GraphBackend_init(Store, cog, cache)
          IN  /\ Commit(r.b)
              /\ opened' = (r.raised = "none")
              /\ last' = Call("open", file, r)
    /\ UNCHANGED <<backend, cog, now, deleted, calls, procs, locks>>

\* The process ends and a new one constructs the backend on the same storage.
Reopen ==
    /\ opened /\ calls < MaxCalls
    /\ \/ /\ backend = "json"
          /\ LET r == JSONBackend_init(Store)
             IN  /\ Commit(r.b)
                 /\ opened' = (r.raised = "none")
                 /\ last' = Call("reopen", file, r)
       \/ /\ backend = "graph"
          /\ \E cache \in LoadCacheChoices(graph) :
                /\ Commit(GB(Store, cache, graph))
                /\ opened' = TRUE
                /\ last' = Done("reopen", memories_cache, "None", "none")
    /\ UNCHANGED <<backend, cog, now, deleted, procs, locks>>
    /\ calls' = calls + 1

AddFact ==
    /\ opened /\ calls < MaxCalls
    /\ \E fact \in FactInputs, metadata \in MetadataInputs, t1 \in Readings(now) :
       \E t2 \in Readings(t1) :
          LET r == add_fact(Store, fact, metadata, t1, t2)
          IN  /\ Commit(r.b)
              /\ now' = t2
              /\ last' = Call("add_fact", fact, r)
              /\ deleted' = deleted \ {r.ret.id}
    /\ UNCHANGED <<backend, cog, opened, procs, locks>>
    /\ calls' = calls + 1

AddEpisode ==
    /\ opened /\ calls < MaxCalls
    /\ \E summary \in SummaryInputs, metadata \in MetadataInputs, t1 \in Readings(now) :
       \E t2 \in Readings(t1) :
          LET r == add_episode(Store, summary, metadata, t1, t2)
          IN  /\ Commit(r.b)
              /\ now' = t2
              /\ last' = Call("add_episode", summary, r)
              /\ deleted' = deleted \ {r.ret.id}
    /\ UNCHANGED <<backend, cog, opened, procs, locks>>
    /\ calls' = calls + 1

AddProcedure ==
    /\ opened /\ calls < MaxCalls
    /\ \E p \in ProcedureInputs, metadata \in MetadataInputs, t1 \in Readings(now) :
       \E t2 \in Readings(t1) :
          LET r == add_procedure(Store, p.name, p.steps, metadata, t1, t2)
          IN  /\ Commit(r.b)
              /\ now' = t2
              /\ last' = Call("add_procedure", <<p.name, p.steps, metadata>>, r)
              /\ deleted' = deleted \ {r.ret.id}
    /\ UNCHANGED <<backend, cog, opened, procs, locks>>
    /\ calls' = calls + 1

UpdateFact ==
    /\ opened /\ calls < MaxCalls
    /\ \E old \in FactInputs, new \in UpdateInputs, t \in Readings(now) :
          LET r == update_fact(Store, old, new, t)
          IN  /\ Commit(r.b)
              /\ now' = IF IsNone(r.ret) THEN now ELSE t
              /\ last' = Call("update_fact", <<old, new>>, r)
    /\ UNCHANGED <<backend, cog, opened, deleted, procs, locks>>
    /\ calls' = calls + 1

\* The ids a caller can name: those of the records it was given, or one it made up.
KnownIds == Ids(StoreMemories(Store)) \cup deleted \cup {GenerateId(TextMo, MaxClock)}

Delete ==
    /\ opened /\ calls < MaxCalls
    /\ \E id \in KnownIds :
          LET r == store_delete(Store, id)
          IN  /\ Commit(r.b)
              /\ last' = Call("delete", id, r)
              /\ deleted' = IF r.ret /\ r.raised = "none" THEN deleted \cup {id} ELSE deleted
    /\ UNCHANGED <<backend, cog, opened, now, procs, locks>>
    /\ calls' = calls + 1

ClearAll ==
    /\ opened /\ calls < MaxCalls
    /\ LET r == clear_all(Store)
       IN  /\ Commit(r.b)
           /\ last' = Call("clear_all", "None", r)
    /\ UNCHANGED <<backend, cog, opened, now, deleted, procs, locks>>
    /\ calls' = calls + 1

\* backend.save(backend.load()): what load returned is saved.
SaveLoaded ==
    /\ opened /\ calls < MaxCalls
    /\ LET l == Backend_load(Store)
           r == IF l.raised # "none" THEN l ELSE Backend_save(l.b, l.ret)
       IN  /\ Commit(r.b)
           /\ last' = IF l.raised # "none" THEN Done("load", file, l.ret, l.raised)
                       ELSE Done("save_loaded", l.ret, "None", r.raised)
    /\ UNCHANGED <<backend, cog, opened, now, deleted, procs, locks>>
    /\ calls' = calls + 1

\* backend.save(list) with a list shorter than the store: all records but the first.
SaveSmaller ==
    /\ opened /\ calls < MaxCalls /\ Size > 0
    /\ LET r == Backend_save(Store, Tail(StoreMemories(Store)))
       IN  /\ Commit(r.b)
           /\ last' = Call("save", Tail(StoreMemories(Store)), r)
    /\ UNCHANGED <<backend, cog, opened, now, deleted, procs, locks>>
    /\ calls' = calls + 1

\* backend.load()
Load ==
    /\ opened /\ calls < MaxCalls
    /\ LET r == Backend_load(Store)
       IN  /\ Commit(r.b)
           /\ last' = Call("load", file, r)
    /\ UNCHANGED <<backend, cog, opened, now, deleted, procs, locks>>
    /\ calls' = calls + 1

GetAll ==
    /\ opened /\ calls < MaxCalls
    /\ last' = Done("get_all", "None", StoreMemories(Store), "none")
    /\ UNCHANGED <<backend, cog, opened, memories, file, fstat, memories_cache, graph, now,
                   deleted, procs, locks>>
    /\ calls' = calls + 1

GetByCategory ==
    /\ opened /\ calls < MaxCalls
    /\ \E c \in Categories :
          last' = Done("get_by_category", c, Backend_get_by_category(Store, c), "none")
    /\ UNCHANGED <<backend, cog, opened, memories, file, fstat, memories_cache, graph, now,
                   deleted, procs, locks>>
    /\ calls' = calls + 1

Search ==
    /\ opened /\ calls < MaxCalls
    /\ \E q \in QueryInputs, c \in {"None", "semantic"}, limit \in {0, 1, DefaultLimit} :
       \E mentioning \in Orders(Inc(graph, EntityNode(Lower(q)), "MENTIONS")) :
          last' = Done("search", <<q, c, limit>>,
                       store_search(Store, q, c, limit, mentioning), "none")
    /\ UNCHANGED <<backend, cog, opened, memories, file, fstat, memories_cache, graph, now,
                   deleted, procs, locks>>
    /\ calls' = calls + 1

FindRelated ==
    /\ opened /\ calls < MaxCalls
    /\ \E q \in QueryInputs, depth \in {1, 2} :
          last' = Done("find_related", <<q, depth>>,
                       store_find_related(Store, q, depth), "none")
    /\ UNCHANGED <<backend, cog, opened, memories, file, fstat, memories_cache, graph, now,
                   deleted, procs, locks>>
    /\ calls' = calls + 1

GetEntityInfo ==
    /\ opened /\ calls < MaxCalls
    /\ \E e \in QueryInputs :
          last' = Done("get_entity_info", e, store_get_entity_info(Store, e), "none")
    /\ UNCHANGED <<backend, cog, opened, memories, file, fstat, memories_cache, graph, now,
                   deleted, procs, locks>>
    /\ calls' = calls + 1

Next ==
    \/ Open
    \/ Reopen
    \/ AddFact
    \/ AddEpisode
    \/ AddProcedure
    \/ UpdateFact
    \/ Delete
    \/ ClearAll
    \/ SaveLoaded
    \/ SaveSmaller
    \/ Load
    \/ GetAll
    \/ GetByCategory
    \/ Search
    \/ FindRelated
    \/ GetEntityInfo

Spec == Init /\ [][Next]_vars

-----------------------------------------------------------------------------
(* SpecFacade: one MemoryStore and one caller, as Spec; the file backend     *)
(* starts without a file, the graph engine holds one fact of an earlier      *)
(* session.  The caller uses the facade and the convenience functions.       *)

\* The engine's triples after an earlier session's add_fact("Py").
PersistedGraph ==
    LET m == from_dict(FileRecord1)
    IN  MemoryTriples(m) \cup EntityTriples(m) \cup DateTriples(m) \cup StepTriples(m)

InitFacade ==
    /\ backend \in {"json", "graph"}
    /\ cog \in BOOLEAN
    /\ (backend = "json" => cog)
    /\ opened = FALSE
    /\ memories = <<>>
    /\ file = <<>>
    /\ fstat = "missing"
    /\ memories_cache = <<>>
    /\ graph = IF backend = "graph" THEN PersistedGraph ELSE {}
    /\ now = 0
    /\ last = Done("none", "None", "None", "none")
    /\ deleted = {}
    /\ calls = 0
    /\ procs = Idle
    /\ locks = Idle

\* add_procedure(name, steps, procedure_name=...)
AddProcedureNamed ==
    /\ opened /\ calls < MaxCalls
    /\ \E p \in ProcedureInputs, metadata \in ProcedureMetadataInputs, t1 \in Readings(now) :
       \E t2 \in Readings(t1) :
          LET r == add_procedure(Store, p.name, p.steps, metadata, t1, t2)
          IN  /\ Commit(r.b)
              /\ now' = t2
              /\ last' = Call("add_procedure", <<p.name, p.steps, metadata>>, r)
              /\ deleted' = deleted \ {r.ret.id}
    /\ UNCHANGED <<backend, cog, opened, procs, locks>>
    /\ calls' = calls + 1

\* The **metadata of add_episode(summary, timestamp=...): the caller's own
\* time of the event, an earlier reading.
EpisodeMetadataInputs == {[k \in {"timestamp"} |-> -1]}

\* add_episode(summary, timestamp=...)
AddEpisodeStamped ==
    /\ opened /\ calls < MaxCalls
    /\ \E summary \in {TextPy}, metadata \in EpisodeMetadataInputs, t1 \in Readings(now) :
       \E t2 \in Readings(t1) :
          LET r == add_episode(Store, summary, metadata, t1, t2)
          IN  /\ Commit(r.b)
              /\ now' = t2
              /\ last' = Call("add_episode", summary, r)
              /\ deleted' = deleted \ {r.ret.id}
    /\ UNCHANGED <<backend, cog, opened, procs, locks>>
    /\ calls' = calls + 1

\* The arguments of build_context: no query or "Py"; max is max_facts and
\* max_episodes, below or above the number of records.
BuildContext ==
    /\ opened /\ calls < MaxCalls
    /\ \E query \in {<<>>, TextPy}, max \in {<<1, 0>>, <<10, 5>>},
          include_procedures \in BOOLEAN, use_relationships \in BOOLEAN :
       \E related \in IF query # <<>> /\ use_relationships /\ backend = "graph"
                       THEN Orders({m \in store_find_related(Store, query, 1) :
                                       m.category = "semantic"})
                       ELSE {<<>>},
          mentioning \in IF query # <<>> /\ backend = "graph"
                          THEN Orders(Inc(graph, EntityNode(Lower(query)), "MENTIONS"))
                          ELSE {<<>>} :
          last' = Done("build_context",
                       <<query, max[1], max[2], include_procedures, use_relationships>>,
                       build_context(Store, query, max[1], max[2], include_procedures,
                                     use_relationships, related, mentioning),
                       "none")
    /\ UNCHANGED <<backend, cog, opened, memories, file, fstat, memories_cache, graph, now,
                   deleted, procs, locks>>
    /\ calls' = calls + 1

\* remember(content, category) on the global store, which is the graph store;
\* the first call of a convenience function constructs it.
Remember ==
    /\ backend = "graph" /\ calls < MaxCalls
    /\ \E content \in SummaryInputs, category \in {"episodic", "procedural", "other"},
          metadata \in MetadataInputs, t1 \in Readings(now),
          cache \in IF opened THEN {memories_cache} ELSE LoadCacheChoices(graph) :
       \E t2 \in Readings(t1) :
          LET r == remember(Store, opened, cog, cache, content, category, metadata, t1, t2)
          IN  /\ Commit(r.b)
              /\ opened' = (opened \/ r.raised \in {"none", "ValueError"})
              /\ now' = IF r.raised = "none" THEN t2 ELSE now
              /\ last' = Call("remember", <<content, category>>, r)
              /\ deleted' = IF r.raised = "none" THEN deleted \ {r.ret.id} ELSE deleted
    /\ UNCHANGED <<backend, cog, procs, locks>>
    /\ calls' = calls + 1

NextFacade ==
    \/ Open
    \/ AddFact
    \/ AddEpisode
    \/ AddEpisodeStamped
    \/ AddProcedureNamed
    \/ Delete
    \/ FindRelated
    \/ BuildContext
    \/ Remember

SpecFacade == InitFacade /\ [][NextFacade]_vars

-----------------------------------------------------------------------------
(* SpecPort: a graph store whose engine raises in the middle of a query.     *)

\* The exceptions the engine's calls raise: its own lookups (KeyError,
\* AttributeError, TypeError), its storage (OSError), anything else
\* (RuntimeError).
PortErrors == {"KeyError", "AttributeError", "TypeError", "RuntimeError", "OSError"}
\* json.loads of a stored metadata string raises JSONDecodeError.
DecodeErrors == {"JSONDecodeError"}

InitPort == InitFacade /\ backend = "graph" /\ cog

OpenRaising ==
    /\ ~opened
    /\ \E e \in PortErrors \cup DecodeErrors :
          LET r == GraphBackend_init_raising(Store, e)
          IN  /\ Commit(r.b)
              /\ opened' = (r.raised = "none")
              /\ last' = Call("open raising", e, r)
    /\ UNCHANGED <<backend, cog, now, deleted, calls, procs, locks>>

SearchRaising ==
    /\ opened /\ calls < MaxCalls
    /\ \E q \in QueryInputs, c \in {"None", "semantic"}, limit \in {1, DefaultLimit},
          e \in PortErrors :
          last' = Call("search raising", <<q, c, limit, e>>,
                       GraphBackend_search_raising(Store, q, c, limit, e))
    /\ UNCHANGED <<backend, cog, opened, memories, file, fstat, memories_cache, graph, now,
                   deleted, procs, locks>>
    /\ calls' = calls + 1

FindRelatedRaising ==
    /\ opened /\ calls < MaxCalls
    /\ \E q \in QueryInputs, depth \in {1, 2}, hop \in {1, 2}, e \in PortErrors :
          last' = Call("find_related raising", <<q, depth, hop, e>>,
                       GraphBackend_find_related_raising(Store, q, depth, hop, e))
    /\ UNCHANGED <<backend, cog, opened, memories, file, fstat, memories_cache, graph, now,
                   deleted, procs, locks>>
    /\ calls' = calls + 1

GetEntityInfoRaising ==
    /\ opened /\ calls < MaxCalls
    /\ \E entity \in QueryInputs, e \in PortErrors :
          last' = Call("get_entity_graph raising", <<entity, e>>,
                       GraphBackend_get_entity_graph_raising(Store, entity, e))
    /\ UNCHANGED <<backend, cog, opened, memories, file, fstat, memories_cache, graph, now,
                   deleted, procs, locks>>
    /\ calls' = calls + 1

DeleteRaising ==
    /\ opened /\ calls < MaxCalls
    /\ \E id \in KnownIds, e \in PortErrors :
          LET r == GraphBackend_delete_raising(Store, id, e)
          IN  /\ Commit(r.b)
              /\ last' = Call("delete raising", <<id, e>>, r)
              /\ deleted' = IF r.ret /\ r.raised = "none" THEN deleted \cup {id} ELSE deleted
    /\ UNCHANGED <<backend, cog, opened, now, procs, locks>>
    /\ calls' = calls + 1

NextPort ==
    \/ Open
    \/ OpenRaising
    \/ AddFact
    \/ SearchRaising
    \/ FindRelatedRaising
    \/ GetEntityInfoRaising
    \/ DeleteRaising

SpecPort == InitPort /\ [][NextPort]_vars

-----------------------------------------------------------------------------
(* SpecGraph: a graph store on an engine that holds the fact "Py Mo" of an   *)
(* earlier session; the caller adds, updates, deletes and queries.           *)

\* The record of an earlier session's add_fact("Py Mo"), and the engine's
\* triples after it.
EarlierFact == Memory(GenerateId(TextPyMo, -1), TextPyMo, "semantic", -1, -1, EmptyDict)
EarlierGraph ==
    MemoryTriples(EarlierFact) \cup EntityTriples(EarlierFact)
        \cup DateTriples(EarlierFact) \cup StepTriples(EarlierFact)

InitGraph ==
    /\ backend = "graph"
    /\ cog = TRUE
    /\ opened = FALSE
    /\ memories = <<>>
    /\ file = <<>>
    /\ fstat = "missing"
    /\ memories_cache = <<>>
    /\ graph = EarlierGraph
    /\ now = 0
    /\ last = Done("none", "None", "None", "none")
    /\ deleted = {}
    /\ calls = 0
    /\ procs = Idle
    /\ locks = Idle

\* A fact that names the entity of "Py" in capitals.
TextPyCaps == <<"P", "Y">>
CasedInputs == {TextPyCaps}

\* add_fact of a content that spells a known entity in another case
AddFactCased ==
    /\ opened /\ calls < MaxCalls
    /\ \E fact \in CasedInputs, metadata \in MetadataInputs, t1 \in Readings(now) :
       \E t2 \in Readings(t1) :
          LET r == add_fact(Store, fact, metadata, t1, t2)
          IN  /\ Commit(r.b)
              /\ now' = t2
              /\ last' = Call("add_fact", fact, r)
              /\ deleted' = deleted \ {r.ret.id}
    /\ UNCHANGED <<backend, cog, opened, procs, locks>>
    /\ calls' = calls + 1

\* The depths find_related is called with
MaxDepth == 3

\* find_related(query, depth) with depths beyond the second hop
FindRelatedDeep ==
    /\ opened /\ calls < MaxCalls
    /\ \E q \in QueryInputs, depth \in 1..MaxDepth :
          last' = Done("find_related", <<q, depth>>,
                       store_find_related(Store, q, depth), "none")
    /\ UNCHANGED <<backend, cog, opened, memories, file, fstat, memories_cache, graph, now,
                   deleted, procs, locks>>
    /\ calls' = calls + 1

NextGraph ==
    \/ Open
    \/ AddFact
    \/ AddFactCased
    \/ AddEpisode
    \/ UpdateFact
    \/ Delete
    \/ Search
    \/ FindRelatedDeep
    \/ GetEntityInfo

SpecGraph == InitGraph /\ [][NextGraph]_vars

-----------------------------------------------------------------------------
(* SpecExtract: _extract_entities applied to every content over a small    *)
(* alphabet.  The content is typed one character at a time and is the       *)
(* argument of the last step.                                               *)

\* The characters of the contents: a capital, a small letter ("An" is on the
\* stoplist, "Ann" and "AA" are not), the double quote, a blank and a stop.
Alphabet == {"A", "n", "\"", " ", "."}

\* The longest content
MaxText == 6

InitExtract ==
    /\ backend = "graph"
    /\ cog = TRUE
    /\ opened = FALSE
    /\ memories = <<>>
    /\ file = <<>>
    /\ fstat = "missing"
    /\ memories_cache = <<>>
    /\ graph = {}
    /\ now = 0
    /\ last = Done("type", <<>>, {}, "none")
    /\ deleted = {}
    /\ calls = 0
    /\ procs = Idle
    /\ locks = Idle

\* One more character of the content.
Type ==
    /\ Len(last[2].arg) < MaxText
    /\ \E c \in Alphabet : last' = Done("type", Append(last[2].arg, c), {}, "none")
    /\ UNCHANGED <<backend, cog, opened, memories, file, fstat, memories_cache, graph, now,
                   deleted, calls, procs, locks>>

\* self._extract_entities(content)
Extract ==
    /\ last' = Done("_extract_entities", last[2].arg, ExtractEntities(last[2].arg), "none")
    /\ UNCHANGED <<backend, cog, opened, memories, file, fstat, memories_cache, graph, now,
                   deleted, calls, procs, locks>>

NextExtract ==
    \/ Type
    \/ Extract

SpecExtract == InitExtract /\ [][NextExtract]_vars

-----------------------------------------------------------------------------
(* SpecFile: JSONBackend.load, save, add and delete of several callers on    *)
(* one memories.json, one system call at a time.  The callers are either the *)
(* threads of one process, which share one JSONBackend and its _memories     *)
(* list, or processes that each hold a JSONBackend of their own.             *)
(*                                                                           *)
(*   open(file, 'w')   creates or truncates the file, before any lock        *)
(*   flock(LOCK_EX)    waits until no other open file holds a lock           *)
(*   flock(LOCK_SH)    waits until no other open file holds LOCK_EX          *)
(*   json.dump(data,f) fills the buffer of f; what exceeds the buffer is     *)
(*                     written at f's own offset                             *)
(*   flock(LOCK_UN)    in the finally clause                                 *)
(*   close             leaving the with block: the rest of the buffer is     *)
(*                     written at f's own offset                             *)

Callers == {"c1", "c2"}

\* The records memories.json holds when the callers start, loaded by every
\* JSONBackend that was constructed on it.
Persisted == <<from_dict(FileRecord1)>>

\* The record caller p adds.
NewMemory(p) ==
    IF p = "c1" THEN Memory(GenerateId(TextPy, 0), TextPy, "semantic", 0, 0, EmptyDict)
    ELSE Memory(GenerateId(TextMo, 0), TextMo, "semantic", 0, 0, EmptyDict)

\* The lists caller p passes to save.
SaveInputs(p) == {<<>>, Persisted \o <<NewMemory(p)>>}

\* A byte no write put there: the hole a write beyond the end of file leaves.
Hole == Tok("NUL")

\* write(2) of new at offset pos of a file that holds bytes.
WriteAt(bytes, pos, new) ==
    LET end == pos + Len(new)
        n == IF Len(bytes) > end THEN Len(bytes) ELSE end
    IN  IF new = <<>> THEN bytes
        ELSE [i \in 1..n |->
                 IF i > pos /\ i <= end THEN new[i - pos]
                 ELSE IF i <= Len(bytes) THEN bytes[i]
                 ELSE Hole]

\* A caller that is in no call.
\*   shares  it is a thread of the process that holds the one JSONBackend
\*   cache   the _memories of its own JSONBackend, when it shares none
\*   list    the argument of save;  id, idx  delete's argument and loop index
\*   data    the text json.dump has to write;  pos  the offset of its file
\*   read    the text json.load was given;  ret, found  what the call returned
IdleCaller(shares) ==
    [pc |-> "idle", op |-> "none", shares |-> shares, cache |-> Persisted,
     list |-> <<>>, id |-> <<>>, idx |-> 0, data |-> <<>>, pos |-> 0,
     read |-> <<>>, ret |-> <<>>, found |-> FALSE, raised |-> "none"]

\* self._memories of the JSONBackend caller p uses.
Cache(p) == IF procs[p].shares THEN memories ELSE procs[p].cache

\* The step of caller p that leaves it as rec and its self._memories as ms.
Step(p, rec, ms) ==
    /\ procs' = [procs EXCEPT ![p] = [rec EXCEPT !.cache = IF rec.shares THEN @ ELSE ms]]
    /\ memories' = IF rec.shares THEN ms ELSE memories
    /\ UNCHANGED <<backend, cog, opened, fstat, memories_cache, graph, now, last, deleted, calls>>

At(p, pc) == procs[p].pc = pc

InitFile ==
    /\ backend = "json"
    /\ cog = TRUE
    /\ opened = TRUE
    /\ memories = Persisted
    /\ file = JsonDump(Envelope(Persisted))
    /\ fstat = "ok"
    /\ memories_cache = <<>>
    /\ graph = {}
    /\ now = 0
    /\ last = Done("none", "None", "None", "none")
    /\ deleted = {}
    /\ calls = 0
    /\ \E shares \in BOOLEAN : procs = [p \in Callers |-> IdleCaller(shares)]
    /\ locks = [p \in Callers |-> "none"]

\* The caller calls load().
CallLoad(p) ==
    /\ At(p, "idle")
    /\ Step(p, [procs[p] EXCEPT !.op = "load", !.pc = "load_open"], Cache(p))
    /\ UNCHANGED <<file, locks>>

\* The caller calls save(list); a thread of the shared instance calls add and
\* delete only, so that _memories stays the one list object.
CallSave(p) ==
    /\ At(p, "idle") /\ ~procs[p].shares
    /\ \E ms \in SaveInputs(p) :
          Step(p, [procs[p] EXCEPT !.op = "save", !.list = ms, !.pc = "save_assign"],
               Cache(p))
    /\ UNCHANGED <<file, locks>>

\* add(memory), line 179: self._memories.append(memory)
CallAdd(p) ==
    /\ At(p, "idle")
    /\ Step(p, [procs[p] EXCEPT !.op = "add", !.list = <<NewMemory(p)>>,
                                !.pc = "save_assign"],
            Append(Cache(p), NewMemory(p)))
    /\ UNCHANGED <<file, locks>>

\* delete(memory_id), lines 184-185: the loop looks for the first record with the id.
CallDelete(p) ==
    /\ At(p, "idle")
    /\ \E id \in Ids(Persisted) :
          LET ms == Cache(p)
              hit == {k \in 1..Len(ms) : ms[k].id = id}
          IN  IF hit = {}
              THEN Step(p, [procs[p] EXCEPT !.op = "delete", !.id = id, !.pc = "done"], ms)
              ELSE Step(p, [procs[p] EXCEPT !.op = "delete", !.id = id,
                               !.idx = CHOOSE k \in hit : \A j \in hit : k <= j,
                               !.pc = "delete_del"], ms)
    /\ UNCHANGED <<file, locks>>

\* delete, line 186: del self._memories[i]
DeleteDel(p) ==
    /\ At(p, "delete_del")
    /\ IF procs[p].idx <= Len(Cache(p))
       THEN Step(p, [procs[p] EXCEPT !.found = TRUE, !.pc = "save_assign"],
                 RemoveAt(Cache(p), procs[p].idx))
       ELSE Step(p, [procs[p] EXCEPT !.raised = "IndexError", !.pc = "done"], Cache(p))
    /\ UNCHANGED <<file, locks>>

\* save, lines 165-169: the cache is the argument, data is its envelope.  add,
\* delete pass self._memories itself.
SaveAssign(p) ==
    /\ At(p, "save_assign")
    /\ LET ms == IF procs[p].op \in {"add", "delete"} THEN Cache(p) ELSE procs[p].list
       IN  Step(p, [procs[p] EXCEPT !.data = JsonDump(Envelope(ms)), !.pc = "save_open"], ms)
    /\ UNCHANGED <<file, locks>>

\* save, line 170: open(self.memory_file, 'w')
SaveOpen(p) ==
    /\ At(p, "save_open")
    /\ file' = <<>>
    /\ Step(p, [procs[p] EXCEPT !.pos = 0, !.pc = "save_lock"], Cache(p))
    /\ UNCHANGED locks

\* save, line 171: flock(LOCK_EX) on the file save has just opened.  A lock
\* the caller itself held on another open file would be in the way as well.
SaveLock(p) ==
    /\ At(p, "save_lock")
    /\ \A q \in Callers : locks[q] = "none"
    /\ locks' = [locks EXCEPT ![p] = "EX"]
    /\ Step(p, [procs[p] EXCEPT !.pc = "save_dump"], Cache(p))
    /\ UNCHANGED file

\* save, line 173: json.dump(data, f); the first k bytes leave the buffer.
SaveDump(p) ==
    /\ At(p, "save_dump")
    /\ \E k \in 0..Len(procs[p].data) :
          /\ file' = WriteAt(file, procs[p].pos, SubSeq(procs[p].data, 1, k))
          /\ Step(p, [procs[p] EXCEPT !.pos = k, !.pc = "save_unlock"], Cache(p))
    /\ UNCHANGED locks

\* save, line 175: flock(LOCK_UN)
SaveUnlock(p) ==
    /\ At(p, "save_unlock")
    /\ locks' = [locks EXCEPT ![p] = "none"]
    /\ Step(p, [procs[p] EXCEPT !.pc = "save_close"], Cache(p))
    /\ UNCHANGED file

\* save, the end of the with block of line 170: close writes the buffer.
SaveClose(p) ==
    /\ At(p, "save_close")
    /\ file' = WriteAt(file, procs[p].pos,
                       SubSeq(procs[p].data, procs[p].pos + 1, Len(procs[p].data)))
    /\ Step(p, [procs[p] EXCEPT !.pos = Len(procs[p].data), !.pc = "done"], Cache(p))
    /\ UNCHANGED locks

\* load, line 129: open(self.memory_file, 'r')
LoadOpen(p) ==
    /\ At(p, "load_open")
    /\ Step(p, [procs[p] EXCEPT !.pc = IF fstat = "ok" THEN "load_lock" ELSE "done"],
            Cache(p))
    /\ UNCHANGED <<file, locks>>

\* load, line 130: flock(LOCK_SH)
LoadLock(p) ==
    /\ At(p, "load_lock")
    /\ \A q \in Callers \ {p} : locks[q] # "EX"
    /\ locks' = [locks EXCEPT ![p] = "SH"]
    /\ Step(p, [procs[p] EXCEPT !.pc = "load_read"], Cache(p))
    /\ UNCHANGED file

\* load, line 132: json.load(f) reads the file.
LoadRead(p) ==
    /\ At(p, "load_read")
    /\ Step(p, [procs[p] EXCEPT !.read = file, !.pc = "load_unlock"], Cache(p))
    /\ UNCHANGED <<file, locks>>

\* load as it would be with the nested save inside the with block: the
\* legacy branch goes on to save with the shared lock still held.
LoadUnlock_keeping_lock(p) ==
    /\ At(p, "load_unlock")
    /\ LET data == JsonLoad(procs[p].read)
           d == DecodeData(data)
       IN  IF data.type = "error" \/ d.raised # "none" \/ ~d.migrate
           THEN /\ locks' = [locks EXCEPT ![p] = "none"]
                /\ Step(p, [procs[p] EXCEPT !.ret = d.ret, !.raised = d.raised,
                                            !.pc = "done"], Cache(p))
           ELSE /\ locks' = locks
                /\ Step(p, [procs[p] EXCEPT !.ret = d.ret, !.list = d.ret,
                                            !.pc = "save_assign"], d.ret)
    /\ UNCHANGED file

\* load, lines 134-161: flock(LOCK_UN), close, and the data is decoded; the
\* legacy branch caches the records and saves them before it returns them.
LoadUnlock(p) ==
    /\ At(p, "load_unlock")
    /\ locks' = [locks EXCEPT ![p] = "none"]
    /\ LET data == JsonLoad(procs[p].read)
           d == DecodeData(data)
       IN  IF data.type = "error" \/ d.raised # "none" \/ ~d.migrate
           THEN Step(p, [procs[p] EXCEPT !.ret = d.ret, !.raised = d.raised, !.pc = "done"],
                     Cache(p))
           ELSE Step(p, [procs[p] EXCEPT !.ret = d.ret, !.list = d.ret,
                                         !.pc = "save_assign"], d.ret)
    /\ UNCHANGED file

NextFile ==
    \/ \E p \in Callers : CallLoad(p)
    \/ \E p \in Callers : CallSave(p)
    \/ \E p \in Callers : CallAdd(p)
    \/ \E p \in Callers : CallDelete(p)
    \/ \E p \in Callers : DeleteDel(p)
    \/ \E p \in Callers : SaveAssign(p)
    \/ \E p \in Callers : SaveOpen(p)
    \/ \E p \in Callers : SaveLock(p)
    \/ \E p \in Callers : SaveDump(p)
    \/ \E p \in Callers : SaveUnlock(p)
    \/ \E p \in Callers : SaveClose(p)
    \/ \E p \in Callers : LoadOpen(p)
    \/ \E p \in Callers : LoadLock(p)
    \/ \E p \in Callers : LoadRead(p)
    \/ \E p \in Callers : LoadUnlock(p)

SpecFile == InitFile /\ [][NextFile]_vars

-----------------------------------------------------------------------------
(* SpecLive: processes that call load and save again and again on a file    *)
(* that is versioned or still in the legacy format, with fairness: a        *)
(* process in a call takes its next step, and a lock that can be granted    *)
(* again and again is granted.                                              *)

\* memories.json in the legacy format: the plain list of the records.
LegacyFile == <<Tok("[")>> \o [i \in 1..Len(Persisted) |-> to_dict(Persisted[i])] \o <<Tok("]")>>

InitLive ==
    /\ backend = "json"
    /\ cog = TRUE
    /\ opened = TRUE
    /\ memories = Persisted
    /\ file \in {JsonDump(Envelope(Persisted)), LegacyFile}
    /\ fstat = "ok"
    /\ memories_cache = <<>>
    /\ graph = {}
    /\ now = 0
    /\ last = Done("none", "None", "None", "none")
    /\ deleted = {}
    /\ calls = 0
    /\ procs = [p \in Callers |-> IdleCaller(FALSE)]
    /\ locks = [p \in Callers |-> "none"]

\* The call returns; the process may call again.
Return(p) ==
    /\ At(p, "done")
    /\ Step(p, [IdleCaller(FALSE) EXCEPT !.cache = procs[p].cache], Cache(p))
    /\ UNCHANGED <<file, locks>>

\* The steps of a call of p that wait for nothing.
Run(p) ==
    \/ SaveAssign(p)
    \/ SaveOpen(p)
    \/ SaveDump(p)
    \/ SaveUnlock(p)
    \/ SaveClose(p)
    \/ LoadOpen(p)
    \/ LoadRead(p)
    \/ LoadUnlock(p)

NextLive ==
    \/ \E p \in Callers : CallLoad(p)
    \/ \E p \in Callers : CallSave(p)
    \/ \E p \in Callers : Run(p)
    \/ \E p \in Callers : SaveLock(p)
    \/ \E p \in Callers : LoadLock(p)
    \/ \E p \in Callers : Return(p)

SpecLive ==
    /\ InitLive
    /\ [][NextLive]_vars
    /\ \A p \in Callers : WF_vars(Run(p)) /\ SF_vars(SaveLock(p)) /\ SF_vars(LoadLock(p))

-----------------------------------------------------------------------------
(* SpecInit: two processes construct a JSONBackend on a directory that has  *)
(* no memories.json yet, and each then adds a record.  The constructor is   *)
(* three steps: the existence test of _ensure_storage, its write_text, and  *)
(* _load_cache; add is the steps of SpecFile.                               *)

\* A process that has not constructed its JSONBackend yet.
Unconstructed == [IdleCaller(FALSE) EXCEPT !.pc = "init", !.cache = <<>>]

InitInit ==
    /\ backend = "json"
    /\ cog = TRUE
    /\ opened = FALSE
    /\ memories = <<>>
    /\ file = <<>>
    /\ fstat = "missing"
    /\ memories_cache = <<>>
    /\ graph = {}
    /\ now = 0
    /\ last = Done("none", "None", "None", "none")
    /\ deleted = {}
    /\ calls = 0
    /\ procs = [p \in Callers |-> Unconstructed]
    /\ locks = [p \in Callers |-> "none"]

\* _ensure_storage, line 117: if not self.memory_file.exists()
EnsureCheck(p) ==
    /\ At(p, "init")
    /\ Step(p, [procs[p] EXCEPT !.pc = IF fstat = "missing" THEN "ensure_write"
                                       ELSE "load_cache"],
            Cache(p))
    /\ UNCHANGED <<file, locks>>

\* _ensure_storage, lines 119-120: write_text creates or truncates the file
\* and writes the empty envelope, whatever the file holds by now.
EnsureWrite(p) ==
    /\ At(p, "ensure_write")
    /\ file' = JsonDump(Envelope(<<>>))
    /\ fstat' = "ok"
    /\ procs' = [procs EXCEPT ![p].pc = "load_cache"]
    /\ UNCHANGED <<backend, cog, opened, memories, memories_cache, graph, now, last,
                   deleted, calls, locks>>

\* __init__, lines 112-113, and _load_cache: self._memories = self.load(),
\* the load taken as one step; a text that does not parse gives [].
LoadCache(p) ==
    /\ At(p, "load_cache")
    /\ \A q \in Callers \ {p} : locks[q] # "EX"
    /\ LET d == DecodeData(JsonLoad(file))
       IN  Step(p, [procs[p] EXCEPT !.pc = "idle"],
                IF JsonLoad(file).type = "error" \/ d.raised # "none" THEN <<>> ELSE d.ret)
    /\ UNCHANGED <<file, locks>>

NextInit ==
    \/ \E p \in Callers : EnsureCheck(p)
    \/ \E p \in Callers : EnsureWrite(p)
    \/ \E p \in Callers : LoadCache(p)
    \/ \E p \in Callers : CallAdd(p)
    \/ \E p \in Callers : SaveAssign(p)
    \/ \E p \in Callers : SaveOpen(p)
    \/ \E p \in Callers : SaveLock(p)
    \/ \E p \in Callers : SaveDump(p)
    \/ \E p \in Callers : SaveUnlock(p)
    \/ \E p \in Callers : SaveClose(p)

SpecInit == InitInit /\ [][NextInit]_vars

\* The texts the saves of the callers write, and the text the file began with.
Written ==
    {procs[q].data : q \in {c \in Callers : procs[c].data # <<>>}}
        \cup {JsonDump(Envelope(Persisted))}

Returned(p) == procs[p].pc = "done" /\ procs[p].raised = "none"

\* C1: a load of one process that ran while other processes saved was given,
\* by json.load, a complete envelope that some save or the initial creation
\* wrote; it returns the records of that envelope.
C1_LoadSeesCompleteEnvelope ==
    \A p \in Callers :
       (~procs[p].shares /\ procs[p].op = "load" /\ Returned(p)) =>
           /\ procs[p].read \in Written
           /\ JsonDump(Envelope(procs[p].ret)) = procs[p].read

\* C2: when the saves of all writers have returned, the file holds exactly the
\* versioned envelope one of them wrote.
C2_SaveAtomic ==
    (\A p \in Callers : ~procs[p].shares /\ procs[p].op = "save" /\ Returned(p)) =>
        \E p \in Callers : file = procs[p].data

\* C3: when two threads have called add, or add and delete, on the same
\* JSONBackend and both calls have returned, the list in memory has the effect
\* of both calls and the file decodes to exactly that list.
C3_ThreadSafe ==
    (\A p \in Callers : procs[p].shares /\ procs[p].op \in {"add", "delete"} /\ Returned(p)) =>
        /\ \A p \in Callers :
              /\ procs[p].op = "add" => NewMemory(p) \in Range(memories)
              /\ procs[p].op = "delete" => procs[p].id \notin Ids(memories)
        /\ file = JsonDump(Envelope(memories))

-----------------------------------------------------------------------------
(* Properties of Spec. *)

LastOp == last[1]
LastArg == last[2].arg
LastRet == last[2].ret
LastRaised == last[2].raised

\* The records of a list keyed by id, as dict(id -> record) would hold them.
Keyed(ms) ==
    [id \in Ids(ms) |->
        ms[CHOOSE i \in 1..Len(ms) :
              ms[i].id = id /\ \A j \in (i + 1)..Len(ms) : ms[j].id # id]]

\* C4: after save(load()), on either backend, load() returns the records that
\* were saved: the same ids, and under each id the same content, category,
\* timestamps and metadata.
C4_SaveLoadRoundTrip ==
    LastOp = "save_loaded" => Keyed(Backend_load(Store).ret) = Keyed(LastArg)

\* save(load()) has just run on records of which one carries metadata.
C4_Witness ==
    /\ LastOp = "save_loaded" /\ LastRaised = "none"
    /\ \E i \in 1..Len(LastArg) : LastArg[i].metadata # EmptyDict

\* The record a dict of a legacy or versioned file stands for: its six
\* fields, the metadata empty when the dict has none.
RecordOf(d) ==
    [k \in Fields |-> IF k \in DOMAIN d THEN d[k] ELSE EmptyDict]

IsLegacy(bytes) == Bracketed(bytes, "[", "]")
IsVersioned(bytes) == Bracketed(bytes, "env[", "]env")

C6_LoadNeverRaises ==
    LastOp \in {"open", "reopen", "load"} => LastRaised = "none"

\* C7: no two records of the store have the same id.
C7_UniqueIds ==
    LET ms == StoreMemories(Store)
    IN  \A i, j \in 1..Len(ms) : ms[i].id = ms[j].id => i = j

\* C8: delete of an id that is not in the store returns False; delete of an id
\* that is in the store returns True and leaves no record with that id.
C8_DeleteRemovesId ==
    (LastOp = "delete" /\ LastRaised = "none") =>
        /\ LastRet => LastArg \notin Ids(StoreMemories(Store))
        /\ ~LastRet => LastArg \notin Ids(StoreMemories(Store))

RetrievalOps ==
    {"load", "get_all", "get_by_category", "search", "find_related", "get_entity_info"}

\* The ids of the records a retrieval returned.
ReturnedIds ==
    IF LastOp \in {"load", "get_all", "get_by_category", "search"} THEN Ids(LastRet)
    ELSE IF LastOp = "find_related" THEN {m.id : m \in LastRet}
    ELSE IF LastOp = "get_entity_info" THEN {m.id : m \in LastRet.memories}
    ELSE {}

\* C9: on the graph backend no retrieval returns a record whose delete has
\* returned True, unless a record with that id was added again.
C9_DeletedNotReturned ==
    (backend = "graph" /\ LastOp \in RetrievalOps) => ReturnedIds \cap deleted = {}

\* find_related has followed the MENTIONS edge that a deleted memory left behind.
C9_Witness ==
    /\ backend = "graph" /\ LastOp = "find_related"
    /\ \E id \in deleted : id \in Mentioning(graph, Lower(LastArg[1]))

\* C10: a GraphBackend opened on the engine another instance has written has
\* the cache that instance had: the same ids and under each id the same record.
C10_ReopenFaithful ==
    (backend = "graph" /\ LastOp = "reopen") => Keyed(memories_cache) = Keyed(LastArg)

-----------------------------------------------------------------------------
(* Properties of the facade operations. *)

\* The first index of ms whose record is semantic with exactly this content, or 0.
FirstFact(ms, content) ==
    LET hits == {i \in 1..Len(ms) : ms[i].category = "semantic" /\ ms[i].content = content}
    IN  IF hits = {} THEN 0 ELSE CHOOSE k \in hits : \A j \in hits : k <= j

\* What a backend has persisted of the list ms: the file is the envelope of
\* ms; the engine holds every triple add() writes for every record of ms.
PersistedIn(b, ms) ==
    IF b.backend = "json" THEN b.file = JsonDump(Envelope(ms))
    ELSE \A j \in 1..Len(ms) :
            MemoryTriples(ms[j]) \cup EntityTriples(ms[j]) \cup DateTriples(ms[j])
                \cup StepTriples(ms[j]) \subseteq b.graph

AddOps == {"add_fact", "add_episode", "add_procedure"}

\* C12: no call changes the category of a record that is in the store, and
\* every record has updated_at >= created_at: every record in the store after
\* a call has updated_at >= created_at, and it was created by that call, or
\* its id was not in the store before, or a record with its id and its
\* category was in the store before the call.
C12_CategoryAndTimestamps ==
    [][ \A m \in Range(StoreMemories(Store')) :
           /\ m.updated_at >= m.created_at
           /\ \/ last'[1] \in AddOps /\ last' # last /\ m = last'[2].ret
              \/ m.id \notin Ids(StoreMemories(Store))
              \/ \E k \in Range(StoreMemories(Store)) :
                    k.id = m.id /\ k.category = m.category
      ]_vars

\* The records of ms that search(q, c) matches directly: the content holds q,
\* letter case aside, and the category is c when c is given.
IsDirectMatch(m, q, c) ==
    /\ Contains(Lower(m.content), Lower(q))
    /\ c # "None" => m.category = c

RECURSIVE NumberedUpTo(_, _)
\* The lines "1. s1", "2. s2", ... of the first n steps, joined by newlines.
NumberedUpTo(steps, n) ==
    IF n = 0 THEN <<>>
    ELSE NumberedUpTo(steps, n - 1) \o (IF n = 1 THEN <<>> ELSE <<"\n">>)
         \o <<Digits[n], ".", " ">> \o steps[n]

\* C15: add_procedure(name, steps, metadata) adds a procedural record whose
\* content ends in the steps numbered from 1 in the given order, whose
\* metadata holds the steps and the name, and get_procedure(name) then
\* returns a procedural record of that name.
C15_AddProcedure ==
    (LastOp = "add_procedure" /\ LastRaised = "none") =>
        LET name == LastArg[1]
            steps == LastArg[2]
            lines == NumberedUpTo(steps, Len(steps))
            found == get_procedure(Store, name)
        IN  /\ LastRet \in Range(StoreMemories(Store))
            /\ LastRet.category = "procedural"
            /\ Len(LastRet.content) >= Len(lines)
            /\ SubSeq(LastRet.content, Len(LastRet.content) - Len(lines) + 1,
                      Len(LastRet.content)) = lines
            /\ LastRet.metadata["steps"] = steps
            /\ LastRet.metadata["procedure_name"] = name
            /\ ~IsNone(found)
            /\ found.category = "procedural"
            /\ found.metadata["procedure_name"] = name

\* The memory's content names the entity, in any case of the letters.
Mentions(m, e) == \E x \in ExtractEntities(m.content) : Lower(x) = Lower(e)

\* C16: on the graph backend find_related(E, 1) holds every stored memory
\* that mentions E, and find_related(E, depth) with depth >= 2 holds as well
\* every stored memory that mentions an entity one of those also mentions.
C16_FindRelated ==
    (backend = "graph" /\ LastOp = "find_related") =>
        LET E == LastArg[1]
            depth == LastArg[2]
            stored == Range(StoreMemories(Store))
            direct == {m \in stored : Mentions(m, E)}
            second == {c \in stored : \E a \in direct :
                          \E x \in ExtractEntities(a.content) : Mentions(c, x)}
        IN  /\ direct \subseteq LastRet
            /\ depth >= 2 => second \subseteq LastRet

\* find_related("Py", 2) returned two memories that mention Py and a third
\* that mentions only Mo, which one of the two mentions too.
C16_Witness ==
    /\ backend = "graph" /\ LastOp = "find_related" /\ LastArg = <<TextPy, 2>>
    /\ \E a, b2, c \in LastRet :
          /\ a # b2 /\ a.id # b2.id
          /\ Mentions(a, TextPy) /\ Mentions(b2, TextPy) /\ Mentions(a, TextMoCap)
          /\ ~Mentions(c, TextPy) /\ Mentions(c, TextMoCap)
    /\ LastRet \subseteq Range(StoreMemories(Store))

\* C17: on a store that holds no records build_context returns the empty
\* string, whatever its arguments and whichever the backend.
C17_EmptyContext ==
    (LastOp = "build_context" /\ Size = 0) => LastRet = <<>>

\* build_context("Py", ...) with use_relationships on a graph store whose
\* only record was deleted: the engine still holds the record's MENTIONS edge.
C17_Witness ==
    /\ LastOp = "build_context" /\ Size = 0 /\ backend = "graph"
    /\ LastArg[1] = TextPy /\ LastArg[4] /\ LastArg[5]
    /\ Inc(graph, EntityNode(Lower(TextPy)), "MENTIONS") # {}
    /\ LastRet = <<>>

\* C18: without the graph engine's package the construction of the graph
\* backend ends in ImportError: the store is never opened, and no file
\* backend takes its place (no list of records, no memories.json).
C18_NoEngineNoStore ==
    (backend = "graph" /\ ~cog) =>
        /\ ~opened
        /\ LastOp = "open" => LastRaised = "ImportError"
        /\ memories = <<>> /\ memories_cache = <<>>
        /\ fstat = "missing" /\ file = <<>>

\* The construction of a graph backend was tried without the package.
C18_Witness ==
    backend = "graph" /\ ~cog /\ LastOp = "open" /\ LastRaised = "ImportError" /\ ~opened

\* C19: remember(content, category) with a category other than semantic and
\* episodic raises the validation error (ValueError), and the store holds
\* the records it held before: the cache is as it was, or as the engine gives
\* it when the call constructed the store, and the engine is untouched.
C19_RememberValidates ==
    [][ (last'[1] = "remember" /\ calls' = calls + 1
            /\ last'[2].arg[2] \notin {"semantic", "episodic"}) =>
          /\ last'[2].raised = "ValueError"
          /\ opened => memories_cache' = memories_cache
          /\ ~opened => memories_cache' \in LoadCacheChoices(graph)
          /\ graph' = graph ]_vars

\* The graph queries made while the engine raises.
RaisingOps ==
    {"open raising", "search raising", "find_related raising",
     "get_entity_graph raising", "delete raising"}

\* C20: whatever the engine or the decoding of stored metadata raises in
\* search, find_related, get_entity_graph, the cache rebuild of the
\* constructor and the drops of delete, the call returns and the caller sees
\* no exception.
C20_PortErrorsContained ==
    LastOp \in RaisingOps => LastRaised = "none"

\* The records of the cache that the engine links to the entity keyed by the
\* case-folded text.
LinkedTo(text) ==
    {m \in Range(memories_cache) :
        <<MemoryNode(m.id), "MENTIONS", EntityNode(Lower(text))>> \in graph}

\* C21: search of the graph backend.  With limit or more direct matches the
\* result is the first limit of them and the traversal adds nothing; with
\* fewer the result is every direct match in cache order, then records the
\* engine links to the entity of the query; no record is listed twice, every
\* record has the category asked for, and at most limit are listed.
C21_GraphSearch ==
    (backend = "graph" /\ LastOp = "search") =>
        LET q == LastArg[1]
            c == LastArg[2]
            k == LastArg[3]
            direct == SelectSeq(memories_cache, LAMBDA m : IsDirectMatch(m, q, c))
            d == Len(direct)
        IN  IF d >= k THEN LastRet = SubSeq(direct, 1, k)
            ELSE /\ Len(LastRet) <= k
                 /\ Len(LastRet) >= d
                 /\ SubSeq(LastRet, 1, d) = direct
                 /\ \A i \in (d + 1)..Len(LastRet) :
                       /\ LastRet[i] \in LinkedTo(q)
                       /\ ~IsDirectMatch(LastRet[i], q, c)
                 /\ \A i, j \in 1..Len(LastRet) : LastRet[i] = LastRet[j] => i = j
                 /\ \A i \in 1..Len(LastRet) : c # "None" => LastRet[i].category = c

\* search("Py") listed a direct match and, after it, a record of the
\* traversal whose content no longer holds the query.
C21_Witness ==
    /\ backend = "graph" /\ LastOp = "search" /\ LastArg[1] = TextPy
    /\ Len(LastRet) = 2
    /\ IsDirectMatch(LastRet[1], TextPy, LastArg[2])
    /\ ~IsDirectMatch(LastRet[2], TextPy, LastArg[2])
    /\ LastRet[2] \in LinkedTo(TextPy)

\* The records of the cache that share a mentioned entity with a memory node
\* the engine links to the entity keyed by the case-folded text.
WithinTwoHops(text) ==
    {m \in Range(memories_cache) :
        \E t \in graph, u \in graph :
            /\ t[2] = "MENTIONS" /\ t[3] = EntityNode(Lower(text))
            /\ u[2] = "MENTIONS" /\ u[1] = t[1]
            /\ <<MemoryNode(m.id), "MENTIONS", u[3]>> \in graph}

C23_EntityGraph ==
    (backend = "graph" /\ LastOp = "get_entity_info") =>
        LET key == Lower(LastArg)
            mentioned == {t[3][2] : t \in {x \in graph :
                             /\ x[2] = "MENTIONS"
                             /\ \E m \in LinkedTo(LastArg) : x[1] = MemoryNode(m.id)}}
        IN  /\ LastRet.memories = LinkedTo(LastArg)
            /\ LastRet.related_entities = mentioned \ {key}
            /\ key \notin LastRet.related_entities

\* get_entity_info("Py"), with a capital, returned a memory that mentions
\* the key "py" and another entity.
C23_Witness ==
    /\ backend = "graph" /\ LastOp = "get_entity_info" /\ LastArg = TextPy
    /\ LastArg # Lower(LastArg)
    /\ LastRet.memories # {}
    /\ LastRet.related_entities # {}

\* The nodes the engine holds as entities.
EntityNodes == {t[1] : t \in {x \in graph : x[2] = "type" /\ x[3] = "entity"}}

\* C24: every entity node of the engine is keyed by a case-folded string and
\* carries exactly one display name, also after a memory that spells an
\* entity already known in another case of the letters.
C24_OneDisplayName ==
    backend = "graph" =>
        \A n \in EntityNodes :
            /\ n[2] = Lower(n[2])
            /\ Cardinality({t \in graph : t[1] = n /\ t[2] = "name"}) = 1

\* closes[i]: the character at i is the double quote that ends a quoted
\* substring, i.e. the nearest double quote before it does not end one
\* itself and at least one character lies between the two.
ClosingQuotes(text) ==
    LET closes[i \in 1..Len(text)] ==
            /\ text[i] = "\""
            /\ \E h \in 1..(i - 2) :
                  /\ text[h] = "\""
                  /\ \A k \in (h + 1)..(i - 1) : text[k] # "\""
                  /\ ~closes[h]
    IN  closes

\* The double-quoted substrings of a text.
QuotedSubstrings(text) ==
    {SubSeq(text, p[1] + 1, p[2] - 1) :
        p \in {q \in (1..Len(text)) \X (1..Len(text)) :
                  /\ q[1] + 1 < q[2]
                  /\ text[q[1]] = "\""
                  /\ \A k \in (q[1] + 1)..(q[2] - 1) : text[k] # "\""
                  /\ ClosingQuotes(text)[q[2]]}}

\* The whitespace-delimited tokens of a text.
Tokens(text) ==
    {SubSeq(text, p[1], p[2]) :
        p \in {q \in (1..Len(text)) \X (1..Len(text)) :
                  /\ q[1] <= q[2]
                  /\ \A k \in q[1]..q[2] : text[k] \notin Whitespace
                  /\ q[1] = 1 \/ text[q[1] - 1] \in Whitespace
                  /\ q[2] = Len(text) \/ text[q[2] + 1] \in Whitespace}}

\* A token without the punctuation around it.
Stripped(token) ==
    LET inner == {k \in 1..Len(token) : token[k] \notin StripChars}
    IN  IF inner = {} THEN <<>>
        ELSE SubSeq(token, CHOOSE k \in inner : \A l \in inner : k <= l,
                           CHOOSE k \in inner : \A l \in inner : l <= k)

\* C25: the entities extracted from a content are exactly its double-quoted
\* substrings and its whitespace-delimited tokens that, the punctuation
\* around them stripped, start with a capital, are longer than one character
\* and are not on the stoplist when case-folded; a stoplist word in double
\* quotes is returned.
C25_ExtractEntities ==
    LastOp = "_extract_entities" =>
        /\ LastRet = QuotedSubstrings(LastArg) \cup
              {c \in {Stripped(t) : t \in Tokens(LastArg)} :
                  /\ Len(c) > 1
                  /\ IsUpper(c[1])
                  /\ Lower(c) \notin Stoplist}
        /\ \A w \in QuotedSubstrings(LastArg) : Lower(w) \in Stoplist => w \in LastRet

\* The content AA"An" gave the token as it stands and the quoted stoplist
\* word.
C25_Witness ==
    /\ LastOp = "_extract_entities"
    /\ <<"A", "n">> \in LastRet
    /\ Lower(<<"A", "n">>) \in Stoplist
    /\ \E x \in LastRet : IsUpper(x[1]) /\ Lower(x) \notin Stoplist

\* C26: on the graph backend every stored memory has exactly one IS_A edge,
\* to the node of its category; an OCCURRED_ON edge only if it is episodic,
\* and then one, to the date of the first ten characters of created_at;
\* HAS_STEP edges only if it is procedural with steps in its metadata, and
\* then one per step, to the node keyed by its id and the index of the step,
\* whose order is that index.
C26_MemoryEdges ==
    backend = "graph" =>
        \A m \in Range(memories_cache) :
            LET n == MemoryNode(m.id)
                dates == Out(graph, n, "OCCURRED_ON")
                steps == Out(graph, n, "HAS_STEP")
            IN  /\ Out(graph, n, "IS_A") = {CategoryNode(m.category)}
                /\ dates # {} =>
                      /\ m.category = "episodic"
                      /\ dates = {DateNode(Day(m.created_at))}
                /\ steps # {} =>
                      /\ m.category = "procedural"
                      /\ "steps" \in DOMAIN m.metadata
                      /\ steps = {StepNode(m.id, i - 1) : i \in 1..Len(m.metadata.steps)}
                      /\ \A i \in 1..Len(m.metadata.steps) :
                            Out(graph, StepNode(m.id, i - 1), "order") = {IndexStr(i - 1)}

\* The lists of at most n records of one category of the store.
ListsOf(category, n) ==
    LET S == {m \in Range(StoreMemories(Store)) : m.category = category}
        most == IF n < Size THEN n ELSE Size
    IN  UNION {[1..k -> S] : k \in 0..most}

\* A section of the context: nothing for no lines, else heading and lines.
Part(heading, sep, lines) ==
    IF Len(lines) = 0 THEN <<>> ELSE <<<<heading, "\n">> \o Join(sep, lines)>>

\* C27: the text of build_context is made of at most three sections in the
\* order facts, recent episodes, procedures: at most max_facts records, all
\* semantic; at most max_episodes records, all episodic, the newest first;
\* at most 3 records, all procedural, and none when include_procedures is
\* false; a section without records is left out.  (Limits from 0 on.)
C27_ContextSections ==
    LastOp = "build_context" =>
        \E F \in ListsOf("semantic", LastArg[2]),
           E \in ListsOf("episodic", LastArg[3]),
           P \in ListsOf("procedural", IF LastArg[4] THEN 3 ELSE 0) :
            /\ \A i, j \in 1..Len(E) : i < j => E[i].created_at >= E[j].created_at
            /\ LastRet = Join(<<"\n", "\n">>,
                   Part("## Known Facts", <<"\n">>,
                        [i \in 1..Len(F) |-> <<"-", " ">> \o F[i].content])
                   \o Part("## Recent History", <<"\n">>,
                        [i \in 1..Len(E) |->
                            <<"-", " ", "[", ToString(Day(E[i].created_at)), "]", " ">>
                            \o E[i].content])
                   \o Part("## Available Procedures", <<"\n", "\n">>,
                        [i \in 1..Len(P) |-> P[i].content]))

\* build_context listed a fact and two episodes of different times.
C27_Witness ==
    /\ LastOp = "build_context" /\ LastArg[2] = 10
    /\ \E f, e1, e2 \in Range(StoreMemories(Store)) :
          /\ f.category = "semantic"
          /\ e1.category = "episodic" /\ e2.category = "episodic"
          /\ e1.created_at < e2.created_at
          /\ e1.content # e2.content
    /\ Len(SelectSeq(LastRet, LAMBDA c : c = "-")) = 3

\* C28: whatever the summary and the caller's metadata, the record that
\* add_episode creates is episodic and its metadata holds a timestamp equal
\* to the record's created_at.
C28_EpisodeTimestamp ==
    LastOp = "add_episode" =>
        /\ LastRet.category = "episodic"
        /\ "timestamp" \in DOMAIN LastRet.metadata
        /\ LastRet.metadata["timestamp"] = LastRet.created_at

\* C29: on the graph backend every record search(q, c, k) returns holds q in
\* its content, letters compared case-folded, and the list is the one the
\* file store computes over the same records: the first k direct matches.
C29_SearchAsFileStore ==
    (backend = "graph" /\ LastOp = "search") =>
        LET q == LastArg[1]
            direct == SelectSeq(memories_cache, LAMBDA m : IsDirectMatch(m, q, LastArg[2]))
        IN  /\ \A i \in 1..Len(LastRet) : Contains(Lower(LastRet[i].content), Lower(q))
            /\ LastRet = SubSeq(direct, 1, IF LastArg[3] < Len(direct) THEN LastArg[3]
                                           ELSE Len(direct))

\* The engine has a MENTIONS edge from the memory to the entity.
Edge(m, key) == <<MemoryNode(m.id), "MENTIONS", EntityNode(key)>> \in graph

\* The keys of the entity nodes of the engine.
EntityKeys == {n[2] : n \in EntityNodes}

\* C30: on the graph backend find_related(E, 2) returns a memory C only if
\* a memory still in the store mentions E and an entity that C mentions; a
\* memory linked to E through a deleted memory only is not returned.
C30_DeletedLinksNothing ==
    (backend = "graph" /\ LastOp = "find_related" /\ LastArg[2] = 2) =>
        \A c \in LastRet :
            \E a \in Range(memories_cache) :
                /\ Edge(a, Lower(LastArg[1]))
                /\ \E x \in EntityKeys : Edge(a, x) /\ Edge(c, x)

\* C31: two processes, each with a JSONBackend of its own on the one file.
\* When p has added a record and its add has returned, and the add or delete
\* of q, whose cache was loaded before, has returned and the file holds what
\* q's save wrote, the record p added is still in the file.
C31_NoLostRecord ==
    \A p \in Callers, q \in Callers :
       (/\ p # q
        /\ ~procs[p].shares /\ procs[p].op = "add" /\ Returned(p)
        /\ procs[q].op \in {"add", "delete"} /\ Returned(q)
        /\ file = procs[q].data) =>
           NewMemory(p) \in Range(DecodeData(JsonLoad(file)).ret)

\* C32: constructing a JSONBackend destroys no persisted record.  When the
\* add of process p has returned and process q has been constructed and has
\* called nothing yet, the file holds the record p added.
C32_ConstructorKeepsRecords ==
    \A p \in Callers, q \in Callers :
       (/\ p # q
        /\ procs[p].op = "add" /\ Returned(p)
        /\ procs[q].op = "none" /\ At(q, "idle")) =>
           NewMemory(p) \in Range(DecodeData(JsonLoad(file)).ret)

=============================================================================
